---- MODULE Spec2Model ----
(***************************************************************************)
(* Model of the anfw-automate Reconciler (app/RuleExecute): the handler of *)
(* execute_lambda.py and class FirewallRuleHandler of firewall_handler.py, *)
(* acting on the rule groups and firewall policies of AWS Network Firewall.*)
(*                                                                         *)
(* Strings are modelled by what the code does with them:                   *)
(*   - an account id and a vpc id are sequences of characters, so that the *)
(*     IP-set name  f"a{account}{vpc_id}"  is a concatenation and          *)
(*     str.startswith is the prefix relation;                              *)
(*   - a rule line is a record: `name` is what the regular expression of   *)
(*     _get_rule_name_from_rule_string extracts from the line (account,    *)
(*     vpc and hash part), `sid` is the rest of the text (the compiler and *)
(*     _create_reserved_rules draw sid at random);                         *)
(*   - a RulesString is the sequence of its lines (split / join on "\n").  *)
(* A python method becomes an operator on the record `s` that holds the    *)
(* handler object and the firewall service it talks to; s.err is the       *)
(* exception in flight ("none" when there is none) and every operator      *)
(* passes a raised exception through unchanged.                            *)
(***************************************************************************)
EXTENDS Integers, Sequences, FiniteSets, TLC

VARIABLES
    nfw,        \* region -> [rg: rule groups by name id, pol: policies by name id]
    nextId,     \* source of fresh rule-group / policy names
    handled,    \* number of queue records handled so far
    last,       \* the record handled last and how its handling ended
    vpcCidr,    \* history: CIDR carried by the most recent Update of a scope
    wk,         \* concurrent workers (race specification): local state
    tok,        \* UpdateToken of every rule group (race specification)
    col         \* the compiler: its last invocation, the queue, the live documents

vars == <<nfw, nextId, handled, last, vpcCidr, wk, tok, col>>

----------------------------------------------------------------------------
(* Bounds of the model *)

MaxMsgs == 2            \* queue records handled in one behaviour
MaxIds == 5             \* rule-group and policy names ever created
MaxCapacity == 2        \* stands for the 2000 rules of RULE_GROUP_CAPACITY
MaxRefs == 1            \* stands for the 19 of MAX_RULES_PRE_POLICY

(* Program constants *)

RULE_GROUP_CAPACITY == MaxCapacity
MAX_RULES_PRE_POLICY == MaxRefs

Regions == {"eu1", "eu2"}
supported_regions == <<"eu1", "eu2">>

\* tenants: account 1 owns two VPCs, the id of one a prefix of the other's;
\* account 2 owns a VPC whose id equals one of account 1
Accounts == {<<"1">>, <<"2">>}
Scopes == {<<(<<"1">>), (<<"b">>)>>, <<(<<"1">>), (<<"b", "c">>)>>, <<(<<"2">>), (<<"b">>)>>}
Hashes == <<"h1", "h2", "h3">>
Sids == <<1, 2>>
Cidrs == <<"c1", "c2">>

FwAccount == <<"9">>
FwVpc == <<"f">>
DefaultDenyHashes == <<"d1">>

NoArn == [region |-> "", id |-> 0, reserved |-> FALSE]
NoCidr == ""

----------------------------------------------------------------------------
(* Sequences and maps *)

IsPrefix(p, t) == Len(p) <= Len(t) /\ SubSeq(t, 1, Len(p)) = p

RECURSIVE SeqOfSet(_, _)
SeqOfSet(S, ord) ==
    IF S = {} THEN <<>>
    ELSE LET x == CHOOSE y \in S :
                    \A z \in S : IF ord = "asc" THEN y.id <= z.id ELSE y.id >= z.id
         IN <<x>> \o SeqOfSet(S \ {x}, ord)

MapPut(f, k, v) == [x \in DOMAIN f \cup {k} |-> IF x = k THEN v ELSE f[x]]
MapDel(f, k) == [x \in DOMAIN f \ {k} |-> f[x]]
EmptyMap == [x \in {} |-> 0]

RECURSIVE RemoveFirst(_, _)
RemoveFirst(seq, x) ==
    IF seq = <<>> THEN <<>>
    ELSE IF Head(seq) = x THEN Tail(seq)
    ELSE <<Head(seq)>> \o RemoveFirst(Tail(seq), x)

InSeq(seq, x) == \E i \in DOMAIN seq : seq[i] = x

----------------------------------------------------------------------------
(* Rule lines *)

RuleName(a, v, h) == [account |-> a, vpc |-> v, hash |-> h]
RuleLine(a, v, h, sid) == [name |-> RuleName(a, v, h), sid |-> sid]

\* _get_rule_name_from_rule_string: the first match of the rule-name regex,
\* for a line whose text holds no match before its metadata stamp (the
\* text and the regex themselves are GetRuleNameFromRuleString below)
GetRuleName(suricata_rule) == suricata_rule.name

\* f"a{account}{vpc_id}"
IpSetName(account, vpc_id) == <<"a">> \o account \o vpc_id

\* _create_reserved_rules: one line per default-deny rule, random sid
ReservedRules(sid) ==
    [i \in DOMAIN DefaultDenyHashes |->
        RuleLine(FwAccount, FwVpc, DefaultDenyHashes[i], sid)]

----------------------------------------------------------------------------
(* The Network Firewall service, as seen through self._nfw *)

RG(s) == s.fw[s.cur].rg
POL(s) == s.fw[s.cur].pol

Raise(s, e) == IF s.err = "none" THEN [s EXCEPT !.err = e] ELSE s

Arn(region, id, reserved) == [region |-> region, id |-> id, reserved |-> reserved]
PolArn(region, id) == [region |-> region, id |-> id]

\* describe_rule_group / describe_firewall_policy: the exception it raises
DescribeErr(s, arn) ==
    IF arn.region # s.cur THEN s.xerr
    ELSE IF arn.id \notin DOMAIN RG(s) THEN "ResourceNotFoundException"
    ELSE "none"

DescribePolicyErr(s, arn) ==
    IF arn.region # s.cur THEN s.xerr
    ELSE IF arn.id \notin DOMAIN POL(s) THEN "ResourceNotFoundException"
    ELSE "none"

\* ConsumedCapacity of a stateful group of Suricata rules: one per rule
ConsumedCapacity(g) == Len(g.rules)

\* the invocation is cut off by the runtime's timeout once it has made
\* s.stop writing calls (never, when s.stop is NoStop)
NoStop == -1
TimedOut(s) == s.calls = s.stop

\* Config(retries={"max_attempts": 10, "mode": "adaptive"}): the client makes
\* up to max_attempts attempts of a call the service refuses as throttled
max_attempts == 10

\* the service refuses s.refusals attempts in a row of the writing call
\* number s.limitAt; the client raises once its attempts are used up
Limited(s) == s.calls = s.limitAt /\ s.refusals >= max_attempts
Refuse(s) == [s EXCEPT !.calls = @ + 1, !.err = "LimitExceededException"]

\* update_rule_group(RuleGroupArn, RuleGroup): replaces the whole RuleGroup
UpdateRuleGroup(s, arn, rules, hasVars, ipsets) ==
    IF s.err # "none" THEN s
    ELSE IF TimedOut(s) THEN Raise(s, "Timeout")
    ELSE IF Limited(s) THEN Refuse(s)
    ELSE IF DescribeErr(s, arn) # "none" THEN Raise(s, DescribeErr(s, arn))
    ELSE IF RG(s)[arn.id].status = "DELETING" THEN Raise(s, "InvalidOperationException")
    ELSE [s EXCEPT !.fw[s.cur].rg[arn.id] =
                [@ EXCEPT !.rules = rules, !.vars = hasVars, !.ipsets = ipsets],
                   !.calls = @ + 1]

\* create_rule_group(RuleGroupName, Capacity, RuleGroup): the name is
\* _generate_random_name(), a time stamp, here the next fresh id
CreateRuleGroup(s, reserved, rules, hasVars, ipsets) ==
    IF s.err # "none" THEN s
    ELSE IF TimedOut(s) THEN Raise(s, "Timeout")
    ELSE IF Limited(s) THEN Refuse(s)
    ELSE
    [s EXCEPT !.fw[s.cur].rg = MapPut(@, s.next,
                [reserved |-> reserved, rules |-> rules, vars |-> hasVars,
                 ipsets |-> ipsets, status |-> "ACTIVE"]),
              !.next = @ + 1,
              !.calls = @ + 1]

\* delete_rule_group(RuleGroupName): refused while a policy references the
\* group; the group is gone at once or stays DELETING for a while (s.lag)
DeleteRuleGroup(s, id) ==
    IF s.err # "none" THEN s
    ELSE IF TimedOut(s) THEN Raise(s, "Timeout")
    ELSE IF Limited(s) THEN Refuse(s)
    ELSE IF id \notin DOMAIN RG(s) THEN Raise(s, "ResourceNotFoundException")
    ELSE IF RG(s)[id].status = "DELETING"
            \/ \E p \in DOMAIN POL(s) :
                 \E i \in DOMAIN POL(s)[p].refs : POL(s)[p].refs[i].id = id
         THEN Raise(s, "InvalidOperationException")
    ELSE IF s.lag THEN [s EXCEPT !.fw[s.cur].rg[id].status = "DELETING", !.calls = @ + 1]
    ELSE [s EXCEPT !.fw[s.cur].rg = MapDel(@, id), !.calls = @ + 1]

\* update_firewall_policy(FirewallPolicyArn, FirewallPolicy)
UpdateFirewallPolicy(s, parn, refs) ==
    IF s.err # "none" THEN s
    ELSE IF TimedOut(s) THEN Raise(s, "Timeout")
    ELSE IF Limited(s) THEN Refuse(s)
    ELSE [s EXCEPT !.fw[s.cur].pol[parn.id].refs = refs, !.calls = @ + 1]

----------------------------------------------------------------------------
(* Resource Registry: the cached collections and the helpers on them *)

\* _get_all_groups: the ARNs of every page of list_rule_groups
GetAllGroups(s) ==
    {Arn(s.cur, i, RG(s)[i].reserved) : i \in DOMAIN RG(s)}

\* _get_all_policies
GetAllPolicies(s) == {PolArn(s.cur, i) : i \in DOMAIN POL(s)}

\* _arn_to_name: the part after the first "/"
ArnToName(arn) == [id |-> arn.id, reserved |-> arn.reserved]

\* iteration over the python set of cached ARNs
CacheOrder(s) == SeqOfSet(s.cache, s.ord)
PolicyOrder(s) == SeqOfSet(s.pcache, s.ord)

\* _get_rule_entries: one describe per cached group, one entry per line
RECURSIVE ReadGroups(_, _)
ReadGroups(s, arns) ==
    IF arns = <<>> THEN [err |-> "none", entries |-> <<>>]
    ELSE LET a == Head(arns)
             e == DescribeErr(s, a)
         IN IF e # "none" THEN [err |-> e, entries |-> <<>>]
            ELSE LET rest == ReadGroups(s, Tail(arns))
                     rules_ == RG(s)[a.id].rules
                 IN [err |-> rest.err,
                     entries |-> [i \in DOMAIN rules_ |->
                                    [RuleGroupARN |-> a, RuleString |-> rules_[i]]]
                                 \o rest.entries]

GetRuleEntries(s) == ReadGroups(s, CacheOrder(s))

\* the lines of one group among the entries read
LinesOf(entries, arn) ==
    LET sel == SelectSeq(entries, LAMBDA e : e.RuleGroupARN = arn)
    IN [i \in DOMAIN sel |-> sel[i].RuleString]

\* _get_rule_group with the comparison   capa < lowest_capa   replaced by <=
RECURSIVE SmallestLoopLe(_, _, _, _)
SmallestLoopLe(s, arns, lowest_capa, smallest_group) ==
    IF arns = <<>> THEN [err |-> "none", arn |-> smallest_group]
    ELSE LET a == Head(arns)
             e == DescribeErr(s, a)
         IN IF e # "none" THEN [err |-> e, arn |-> NoArn]
            ELSE LET capa == ConsumedCapacity(RG(s)[a.id])
                     state == RG(s)[a.id].status
                 IN IF capa <= lowest_capa /\ state # "DELETING" /\ ~a.reserved
                    THEN SmallestLoopLe(s, Tail(arns), capa, a)
                    ELSE SmallestLoopLe(s, Tail(arns), lowest_capa, smallest_group)

\* _get_rule_group: the loop over the cached ARNs
RECURSIVE SmallestLoop(_, _, _, _)
SmallestLoop(s, arns, lowest_capa, smallest_group) ==
    IF arns = <<>> THEN [err |-> "none", arn |-> smallest_group]
    ELSE LET a == Head(arns)
             e == DescribeErr(s, a)
         IN IF e # "none" THEN [err |-> e, arn |-> NoArn]
            ELSE LET capa == ConsumedCapacity(RG(s)[a.id])
                     state == RG(s)[a.id].status
                 IN IF capa < lowest_capa /\ state # "DELETING" /\ ~a.reserved
                    THEN SmallestLoop(s, Tail(arns), capa, a)
                    ELSE SmallestLoop(s, Tail(arns), lowest_capa, smallest_group)

\* _get_rule_group with   lowest_capa = RULE_GROUP_CAPACITY + 1   at the start
GetRuleGroupFull(s) == SmallestLoop(s, CacheOrder(s), RULE_GROUP_CAPACITY + 1, NoArn)

GetRuleGroup(s) == SmallestLoop(s, CacheOrder(s), RULE_GROUP_CAPACITY, NoArn)

\* _create_new_policy
CreateNewPolicy(s, rule_arn) ==
    IF s.err # "none" THEN s
    ELSE IF TimedOut(s) THEN Raise(s, "Timeout")
    ELSE IF Limited(s) THEN Refuse(s)
    ELSE [s EXCEPT !.fw[s.cur].pol = MapPut(@, s.next, [refs |-> <<rule_arn>>]),
                   !.pcache = @ \cup {PolArn(s.cur, s.next)},
                   !.next = @ + 1,
                   !.calls = @ + 1]

\* _associate_rule_group_to_policy
RECURSIVE AssociateLoop(_, _, _)
AssociateLoop(s, policies, rule_arn) ==
    IF s.err # "none" THEN s
    ELSE IF policies = <<>> THEN CreateNewPolicy(s, rule_arn)
    ELSE LET p == Head(policies)
             e == DescribePolicyErr(s, p)
         IN IF e # "none" THEN Raise(s, e)
            ELSE IF Len(POL(s)[p.id].refs) <= MAX_RULES_PRE_POLICY
                 THEN UpdateFirewallPolicy(s, p, Append(POL(s)[p.id].refs, rule_arn))
                 ELSE AssociateLoop(s, Tail(policies), rule_arn)

\* _associate_rule_group_to_policy without the loop over the cached policies
AssociateRuleGroupToNewPolicy(s, rule_arn) == CreateNewPolicy(s, rule_arn)

AssociateRuleGroupToPolicy(s, rule_arn) == AssociateLoop(s, PolicyOrder(s), rule_arn)

\* _disassociate_rule_from_policy: one policy of the loop
DisassociateOne(s, p, rule_arn) ==
    IF InSeq(POL(s)[p.id].refs, rule_arn)
    THEN UpdateFirewallPolicy(s, p, RemoveFirst(POL(s)[p.id].refs, rule_arn))
    ELSE s

\* _disassociate_rule_from_policy
RECURSIVE DisassociateLoop(_, _, _)
DisassociateLoop(s, policies, rule_arn) ==
    IF s.err # "none" \/ policies = <<>> THEN s
    ELSE IF DescribePolicyErr(s, Head(policies)) # "none"
         THEN Raise(s, DescribePolicyErr(s, Head(policies)))
    ELSE DisassociateLoop(DisassociateOne(s, Head(policies), rule_arn),
                          Tail(policies), rule_arn)

DisassociateRuleFromPolicy(s, rule_arn) == DisassociateLoop(s, PolicyOrder(s), rule_arn)

\* _delete_rule_if_exists without _disassociate_rule_from_policy
DeleteIfMatchReferenced(s, arn, rule_group_name) ==
    IF ArnToName(arn) = rule_group_name
    THEN DeleteRuleGroup(s, rule_group_name.id)
    ELSE s

\* _delete_rule_if_exists: one cached ARN of the loop; a second
\* delete_rule_group after InvalidOperationException meets the same refusal
DeleteIfMatch(s, arn, rule_group_name) ==
    IF ArnToName(arn) = rule_group_name
    THEN DeleteRuleGroup(DisassociateRuleFromPolicy(s, arn), rule_group_name.id)
    ELSE s

\* _delete_rule_if_exists: the cache keeps the ARN of the deleted group
RECURSIVE DeleteIfLoop(_, _, _)
DeleteIfLoop(s, arns, rule_group_name) ==
    IF s.err # "none" \/ arns = <<>> THEN s
    ELSE DeleteIfLoop(DeleteIfMatch(s, Head(arns), rule_group_name),
                      Tail(arns), rule_group_name)

DeleteRuleIfExists(s, rule_group_name) == DeleteIfLoop(s, CacheOrder(s), rule_group_name)

\* self.rule_group_collection.add(arn), reached when nothing was raised
Remember(s, arn) == IF s.err # "none" THEN s ELSE [s EXCEPT !.cache = @ \cup {arn}]

\* _create_new_rule_group
CreateNewRuleGroup(s, rule_string, ip_set_space, ip_set_name) ==
    IF s.err # "none" THEN s
    ELSE Remember(AssociateRuleGroupToPolicy(
                      CreateRuleGroup(s, FALSE, <<rule_string>>, TRUE,
                                      MapPut(EmptyMap, ip_set_name, ip_set_space)),
                      Arn(s.cur, s.next, FALSE)),
                  Arn(s.cur, s.next, FALSE))

----------------------------------------------------------------------------
(* Reconciler: FirewallRuleHandler *)

\* __add_rule_entry: describe_rule_group of the chosen group, the IP-set
\* put into its RuleVariables, update_rule_group. One worker at a time:
\* the describe that yields the UpdateToken directly precedes the update.
\* Result: the handler and the ARN returned (NoArn for None).
AddRuleEntryUpdate(s, rule_arn, new_rules, ip_set_space, ip_set_name) ==
    IF rule_arn = NoArn THEN [s |-> s, arn |-> NoArn]
    ELSE IF DescribeErr(s, rule_arn) # "none"
         THEN [s |-> Raise(s, DescribeErr(s, rule_arn)), arn |-> NoArn]
    ELSE [s |-> UpdateRuleGroup(s, rule_arn, new_rules, TRUE,
                    MapPut(IF RG(s)[rule_arn.id].vars THEN RG(s)[rule_arn.id].ipsets
                           ELSE EmptyMap,
                           ip_set_name, ip_set_space)),
          arn |-> rule_arn]

\* __add_rule_entry: the entries where the rule name is found
FoundIn(entries, new_rule_name) ==
    {i \in DOMAIN entries : GetRuleName(entries[i].RuleString) = new_rule_name}

\* __add_rule_entry: rule_arn is the group of the last entry found
LastFound(entries, found) ==
    entries[CHOOSE i \in found : \A j \in found : j <= i].RuleGroupARN

\* __add_rule_entry: the rule is new, it goes to the group _get_rule_group chose
AddRuleEntryPick(s, rule_string, ip_set_space, ip_set_name, entries, gr) ==
    IF gr.err # "none" THEN [s |-> Raise(s, gr.err), arn |-> NoArn]
    ELSE AddRuleEntryUpdate(s, gr.arn, LinesOf(entries, gr.arn) \o <<rule_string>>,
                            ip_set_space, ip_set_name)

\* __add_rule_entry: the rule exists (its group is rewritten as read) or not
AddRuleEntrySearch(s, rule_string, ip_set_space, ip_set_name, entries, found) ==
    IF found # {}
    THEN AddRuleEntryUpdate(s, LastFound(entries, found),
                            LinesOf(entries, LastFound(entries, found)),
                            ip_set_space, ip_set_name)
    ELSE AddRuleEntryPick(s, rule_string, ip_set_space, ip_set_name, entries,
                          GetRuleGroup(s))

\* __add_rule_entry: after _get_rule_entries
AddRuleEntryRead(s, rule_string, ip_set_space, ip_set_name, rd) ==
    IF rd.err # "none" THEN [s |-> Raise(s, rd.err), arn |-> NoArn]
    ELSE AddRuleEntrySearch(s, rule_string, ip_set_space, ip_set_name, rd.entries,
                            FoundIn(rd.entries, GetRuleName(rule_string)))

\* __add_rule_entry
AddRuleEntry(s, rule_string, ip_set_space, ip_set_name) ==
    IF s.err # "none" THEN [s |-> s, arn |-> NoArn]
    ELSE AddRuleEntryRead(s, rule_string, ip_set_space, ip_set_name, GetRuleEntries(s))

\* _clean_up_rules: existing_account_rules as the list of its items (a dict
\* keeps the position of a key's first insertion and the value of its last)
ExistingAccountRules(entries, event_type, account, vpc_id) ==
    LET InScope(i) == IF event_type = "DeleteVPC"
                      THEN GetRuleName(entries[i].RuleString).vpc = vpc_id
                      ELSE GetRuleName(entries[i].RuleString).account = account
        Same(i, j) == GetRuleName(entries[i].RuleString) = GetRuleName(entries[j].RuleString)
        first == SelectSeq([i \in DOMAIN entries |-> i],
                           LAMBDA i : InScope(i) /\ \A j \in 1..(i - 1) : ~Same(i, j))
    IN [k \in DOMAIN first |->
          LET lastI == CHOOSE i \in DOMAIN entries :
                          Same(i, first[k]) /\ \A j \in DOMAIN entries : Same(j, first[k]) => j <= i
          IN [GroupARN |-> entries[lastI].RuleGroupARN,
              RuleString |-> entries[lastI].RuleString]]

\* _clean_up_rules, one rule_entry of delete_rules: describe_rule_group,
\* then the group is deleted when no rule is left, updated otherwise
DeleteRuleWrite(s, arn, new_rules) ==
    IF DescribeErr(s, arn) # "none" THEN Raise(s, DescribeErr(s, arn))
    ELSE IF new_rules = <<>> THEN DeleteRuleIfExists(s, ArnToName(arn))
    ELSE UpdateRuleGroup(s, arn, new_rules, RG(s)[arn.id].vars, RG(s)[arn.id].ipsets)

\* _clean_up_rules, one rule_entry of delete_rules: the rules of its group,
\* read again, without the rule
DeleteRuleRead(s, rule_entry, rd) ==
    IF rd.err # "none" THEN Raise(s, rd.err)
    ELSE DeleteRuleWrite(s, rule_entry.GroupARN,
             SelectSeq(LinesOf(rd.entries, rule_entry.GroupARN),
                       LAMBDA l : GetRuleName(l) # GetRuleName(rule_entry.RuleString)))

\* _clean_up_rules: the loop over delete_rules
RECURSIVE DeleteRulesLoop(_, _)
DeleteRulesLoop(s, delete_rules) ==
    IF s.err # "none" \/ delete_rules = <<>> THEN s
    ELSE DeleteRulesLoop(DeleteRuleRead(s, Head(delete_rules), GetRuleEntries(s)),
                         Tail(delete_rules))

\* _clean_up_rules: after _get_rule_entries
CleanUpRulesRead(s, rule_keys, event_type, account, vpc_id, rd) ==
    IF rd.err # "none" THEN Raise(s, rd.err)
    ELSE DeleteRulesLoop(s,
             SelectSeq(ExistingAccountRules(rd.entries, event_type, account, vpc_id),
                       LAMBDA meta : GetRuleName(meta.RuleString) \notin rule_keys))

\* _clean_up_rules(rules, account, vpc_id); rule_keys is rules.keys()
CleanUpRules(s, rule_keys, account, vpc_id) ==
    IF s.err # "none" THEN s
    ELSE CleanUpRulesRead(s, rule_keys,
             IF account # <<>> /\ vpc_id # <<>> THEN "DeleteVPC" ELSE "DeleteAccount",
             account, vpc_id, GetRuleEntries(s))

\* _cleanup_ip_sets: the IP-sets whose name does not start with the prefix
PruneIpSets(ip_sets, ip_set_prefix) ==
    [n \in {k \in DOMAIN ip_sets : ~IsPrefix(ip_set_prefix, k)} |-> ip_sets[n]]

\* _cleanup_ip_sets, one cached ARN: describe_rule_group, the assignment to
\* RuleGroup["RuleVariables"]["IPSets"], update_rule_group
CleanupIpSet(s, arn, ip_set_prefix) ==
    IF DescribeErr(s, arn) # "none" THEN Raise(s, DescribeErr(s, arn))
    ELSE IF ~RG(s)[arn.id].vars THEN Raise(s, "KeyError")
    ELSE UpdateRuleGroup(s, arn, RG(s)[arn.id].rules, TRUE,
                         PruneIpSets(RG(s)[arn.id].ipsets, ip_set_prefix))

\* _cleanup_ip_sets: the loop over the cached ARNs
RECURSIVE CleanupIpSetsLoop(_, _, _)
CleanupIpSetsLoop(s, arns, ip_set_prefix) ==
    IF s.err # "none" \/ arns = <<>> THEN s
    ELSE CleanupIpSetsLoop(CleanupIpSet(s, Head(arns), ip_set_prefix),
                           Tail(arns), ip_set_prefix)

\* _cleanup_ip_sets(account, vpcid)
CleanupIpSets(s, account, vpcid) ==
    CleanupIpSetsLoop(s, CacheOrder(s), <<"a">> \o account \o vpcid)

\* create_reserved_rule_group: update the first cached group whose name ends
\* in "reserved", else create one; RuleGroup carries RulesSource only
ReservedInto(s, rule_string, reservedArns) ==
    IF reservedArns # <<>>
    THEN IF DescribeErr(s, Head(reservedArns)) # "none"
         THEN Raise(s, DescribeErr(s, Head(reservedArns)))
         ELSE UpdateRuleGroup(s, Head(reservedArns), rule_string, FALSE, EmptyMap)
    ELSE Remember(AssociateRuleGroupToPolicy(
                      CreateRuleGroup(s, TRUE, rule_string, FALSE, EmptyMap),
                      Arn(s.cur, s.next, TRUE)),
                  Arn(s.cur, s.next, TRUE))

\* create_reserved_rule_group
CreateReservedRuleGroup(s) ==
    IF s.err # "none" THEN s
    ELSE ReservedInto(s, ReservedRules(s.rsid),
                      SelectSeq(CacheOrder(s), LAMBDA a : ArnToName(a).reserved))

\* add_new_rule: a new rule group when __add_rule_entry returned None
CreateIfNone(r, rule_string, ip_set_space, ip_set_name) ==
    IF r.s.err = "none" /\ r.arn = NoArn
    THEN CreateNewRuleGroup(r.s, rule_string, ip_set_space, ip_set_name)
    ELSE r.s

\* add_new_rule: one item of rules.items()
AddOneRule(s, rule_string, rule_keys, vpc_id, account, vpc_cidr) ==
    CleanUpRules(
        CreateIfNone(AddRuleEntry(s, rule_string, vpc_cidr, IpSetName(account, vpc_id)),
                     rule_string, vpc_cidr, IpSetName(account, vpc_id)),
        rule_keys, account, vpc_id)

\* add_new_rule: the loop over rules.items()
RECURSIVE AddNewRuleLoop(_, _, _, _, _, _)
AddNewRuleLoop(s, todo, rule_keys, vpc_id, account, vpc_cidr) ==
    IF s.err # "none" \/ todo = <<>> THEN s
    ELSE AddNewRuleLoop(AddOneRule(s, Head(todo), rule_keys, vpc_id, account, vpc_cidr),
                        Tail(todo), rule_keys, vpc_id, account, vpc_cidr)

\* rules.keys()
RuleKeys(rules) == {GetRuleName(rules[i]) : i \in DOMAIN rules}

\* an except branch that lets no error through
SwallowAny(s, code) == [s EXCEPT !.err = "none"]
\* add_new_rule: LimitExceededException is logged and swallowed
Swallow(s, code) == IF s.err = code THEN [s EXCEPT !.err = "none"] ELSE s

\* add_new_rule
AddNewRule(s, vpc_id, account, rules, vpc_cidr) ==
    Swallow(AddNewRuleLoop(s, rules, RuleKeys(rules), vpc_id, account, vpc_cidr),
            "LimitExceededException")

\* json_to_rule: _clean_up_rules then _cleanup_ip_sets of a scope
DeleteScope(s, account, vpc_id) ==
    CleanupIpSets(CleanUpRules(s, {}, account, vpc_id), account, vpc_id)

\* json_to_rule: the DeleteAccount loop over self.supported_regions; the
\* client changes, the cached collections do not; ResourceNotFoundException
\* is logged and swallowed
RECURSIVE DeleteAccountLoop(_, _, _)
DeleteAccountLoop(s, regions, account) ==
    IF s.err # "none" \/ regions = <<>> THEN s
    ELSE DeleteAccountLoop(
             Swallow(DeleteScope([s EXCEPT !.cur = Head(regions)], account, <<>>),
                     "ResourceNotFoundException"),
             Tail(regions), account)

\* json_to_rule(json_message, event_type): the event types exclude each other
JsonToRule(s, m) ==
    IF m.event = "Update" /\ m.account # <<>> /\ m.cidr # NoCidr
       /\ m.vpc # <<>> /\ m.region # "" /\ m.rules # <<>>
    THEN AddNewRule(s, m.vpc, m.account, m.rules, m.cidr)
    ELSE IF m.event = "DeleteVpc" /\ m.vpc # <<>>
    THEN DeleteScope(s, m.account, m.vpc)
    ELSE IF m.event = "DeleteS3" /\ m.account # <<>> /\ m.region # ""
    THEN DeleteScope(s, m.account, <<>>)
    ELSE IF m.event = "DeleteAccount" /\ m.account # <<>>
    THEN DeleteAccountLoop(s, supported_regions, m.account)
    ELSE s

\* FirewallRuleHandler.__init__: the client of the region and the two caches
WithCaches(s) == [s EXCEPT !.cache = GetAllGroups(s), !.pcache = GetAllPolicies(s)]

NewHandler(fw, next, region, ord, lag, xerr, rsid) ==
    WithCaches([fw |-> fw, cur |-> region, cache |-> {}, pcache |-> {}, next |-> next,
                err |-> "none", calls |-> 0, stop |-> NoStop, limitAt |-> NoStop, refusals |-> 0,
                ord |-> ord, lag |-> lag, xerr |-> xerr, rsid |-> rsid])

\* execute_lambda.handler, one record: json_to_rule, then create_reserved_rule_group
Handler(fw, next, m, ord, lag, xerr, rsid) ==
    CreateReservedRuleGroup(JsonToRule(NewHandler(fw, next, m.region, ord, lag, xerr, rsid), m))

\* the same invocation, cut off after stop writing calls
HandlerUntil(fw, next, m, stop) ==
    CreateReservedRuleGroup(
        JsonToRule([NewHandler(fw, next, m.region, "asc", FALSE,
                               "ResourceNotFoundException", Sids[1])
                       EXCEPT !.stop = stop], m))

----------------------------------------------------------------------------
(* Queue records *)

NoMsg == [event |-> "none", account |-> <<>>, vpc |-> <<>>, region |-> "",
          cidr |-> NoCidr, rules |-> <<>>]

\* no compiler invocation so far, nothing queued, no document stored
NoOut == [ev |-> [source |-> "none"], sent |-> <<>>, log |-> <<>>, err |-> "none"]
NoCol == [out |-> NoOut, queue |-> <<>>, live |-> <<>>, busy |-> {}, order |-> <<>>]

\* the rules map of a compilation message, as the list of its values in
\* the order of rules.items(): the lines one run of the compiler makes of
\* the intents hs (hash ranks) of a VPC
RECURSIVE RulesOf(_, _, _, _)
RulesOf(account, vpc, hs, sid) ==
    IF hs = {} THEN <<>>
    ELSE LET k == CHOOSE x \in hs : \A y \in hs : x <= y
         IN <<RuleLine(account, vpc, Hashes[k], sid)>> \o RulesOf(account, vpc, hs \ {k}, sid)

\* one run of the compiler reads the VPC's CIDR and draws its sids
UpdateMsgs(regions, scopes, ranks, runs) ==
    {[event |-> "Update", account |-> sc[1], vpc |-> sc[2], region |-> r,
      cidr |-> Cidrs[run], rules |-> RulesOf(sc[1], sc[2], hs, Sids[run])] :
        sc \in scopes, r \in regions, hs \in SUBSET ranks, run \in runs}

DeleteVpcMsgs(regions, scopes) ==
    {[event |-> "DeleteVpc", account |-> sc[1], vpc |-> sc[2], region |-> r,
      cidr |-> NoCidr, rules |-> <<>>] : sc \in scopes, r \in regions}

DeleteS3Msgs(regions, accounts) ==
    {[event |-> "DeleteS3", account |-> a, vpc |-> <<>>, region |-> r,
      cidr |-> NoCidr, rules |-> <<>>] : a \in accounts, r \in regions}

DeleteAccountMsgs(regions, accounts) ==
    {[event |-> "DeleteAccount", account |-> a, vpc |-> <<>>, region |-> r,
      cidr |-> NoCidr, rules |-> <<>>] : a \in accounts, r \in regions}

----------------------------------------------------------------------------
(* One invocation at a time *)

\* asynchronous deletion has completed before the next record is handled
Purge(fw) ==
    [r \in Regions |->
        [rg |-> [i \in {j \in DOMAIN fw[r].rg : fw[r].rg[j].status # "DELETING"} |->
                    fw[r].rg[i]],
         pol |-> fw[r].pol]]

\* what the service answers to an ARN of another region matters to the
\* regional sweep only
CrossRegionErrors(m) ==
    IF m.event = "DeleteAccount"
    THEN {"ResourceNotFoundException", "InvalidRequestException"}
    ELSE {"ResourceNotFoundException"}

\* the firewall and the names used, as the invocation leaves them
Commit(m, s) ==
    /\ s.next <= MaxIds + 1
    /\ nfw' = Purge(s.fw)
    /\ nextId' = s.next
    /\ last' = [msg |-> m, err |-> s.err]

\* one invocation of execute_lambda.handler with one record
HandleRecord(m, sids) ==
    /\ \E ord \in {"asc", "desc"}, lag \in BOOLEAN, rsid \in sids,
          xerr \in CrossRegionErrors(m) :
         Commit(m, Handler(nfw, nextId, m, ord, lag, xerr, rsid))
    /\ vpcCidr' = IF m.event = "Update"
                  THEN [vpcCidr EXCEPT ![<<m.account, m.vpc>>] = m.cidr]
                  ELSE vpcCidr
    /\ UNCHANGED <<wk, tok>>

Handle(m, sids) == HandleRecord(m, sids) /\ UNCHANGED col

AllRanks == DOMAIN Hashes
AllRuns == DOMAIN Sids
AllSids == {Sids[i] : i \in DOMAIN Sids}

HandleUpdate ==
    /\ handled < MaxMsgs
    /\ handled' = handled + 1
    /\ \E m \in UpdateMsgs({"eu1"}, Scopes, AllRanks, AllRuns) : Handle(m, AllSids)

HandleDeleteVpc ==
    /\ handled < MaxMsgs
    /\ handled' = handled + 1
    /\ \E m \in DeleteVpcMsgs({"eu1"}, Scopes) : Handle(m, AllSids)

HandleDeleteS3 ==
    /\ handled < MaxMsgs
    /\ handled' = handled + 1
    /\ \E m \in DeleteS3Msgs({"eu1"}, Accounts) : Handle(m, AllSids)

HandleDeleteAccount ==
    /\ handled < MaxMsgs
    /\ handled' = handled + 1
    /\ \E m \in DeleteAccountMsgs({"eu1"}, Accounts) : Handle(m, AllSids)

NoFirewall == [r \in Regions |-> [rg |-> EmptyMap, pol |-> EmptyMap]]

Init ==
    /\ nfw = NoFirewall
    /\ nextId = 1
    /\ handled = 0
    /\ last = [msg |-> NoMsg, err |-> "none"]
    /\ vpcCidr = [sc \in Scopes |-> NoCidr]
    /\ wk = <<>>
    /\ tok = <<>>
    /\ col = NoCol

Next == HandleUpdate \/ HandleDeleteVpc \/ HandleDeleteS3 \/ HandleDeleteAccount

Spec == Init /\ [][Next]_vars

----------------------------------------------------------------------------
(* The live state *)

GroupIds(r) == DOMAIN nfw[r].rg

\* the rule lines of a region: where each is and what it is
LiveLines(fw, r) ==
    UNION {{[id |-> g, line |-> fw[r].rg[g].rules[i]] : i \in DOMAIN fw[r].rg[g].rules} :
              g \in DOMAIN fw[r].rg}

CustomerLines(fw, r) == {l \in LiveLines(fw, r) : ~fw[r].rg[l.id].reserved}

\* the IP-sets of a region: where each is and what it is
LiveIpSets(fw, r) ==
    UNION {{[id |-> g, name |-> n, cidr |-> fw[r].rg[g].ipsets[n]] :
               n \in DOMAIN fw[r].rg[g].ipsets} : g \in DOMAIN fw[r].rg}

\* rule_name has the prefix "<account>-<vpc>-"
OfScope(name, account, vpc) == name.account = account /\ name.vpc = vpc

LiveNames(fw, r, account, vpc) ==
    {l.line.name : l \in {x \in LiveLines(fw, r) : OfScope(x.line.name, account, vpc)}}

Keys(m) == RuleKeys(m.rules)

----------------------------------------------------------------------------
(* Update records only, without a limit on their number: the names that   *)
(* can ever be created bound the behaviours                                *)

PackScopes == {<<(<<"1">>), (<<"b">>)>>, <<(<<"1">>), (<<"b", "c">>)>>}

HandleUpdateOnly ==
    /\ UNCHANGED handled
    /\ \E m \in UpdateMsgs({"eu1"}, PackScopes, {1, 2}, {1}) : Handle(m, {Sids[1]})

NextCap == HandleUpdateOnly

SpecCap == Init /\ [][NextCap]_vars

----------------------------------------------------------------------------
(* Two regions: records of either region, one tenant VPC *)

SweepScopes == {<<(<<"1">>), (<<"b">>)>>}

HandleUpdateRegions ==
    /\ handled < MaxMsgs
    /\ handled' = handled + 1
    /\ \E m \in UpdateMsgs(Regions, SweepScopes, {1, 2}, AllRuns) : Handle(m, {Sids[1]})

HandleDeleteAccountRegions ==
    /\ handled < MaxMsgs
    /\ handled' = handled + 1
    /\ \E m \in DeleteAccountMsgs(Regions, {<<"1">>}) : Handle(m, {Sids[1]})

NextRegions == HandleUpdateRegions \/ HandleDeleteAccountRegions

SpecRegions == Init /\ [][NextRegions]_vars

----------------------------------------------------------------------------
(* Two invocations at a time in one region, step by step through          *)
(* add_new_rule: every describe and every update is a step of its own.    *)
(* tok[g] is the UpdateToken of rule group g.                              *)

Workers == {1, 2}
RaceRegion == "eu1"
RaceScope(w) == IF w = 1 THEN <<(<<"1">>), (<<"b", "c">>)>> ELSE <<(<<"2">>), (<<"b">>)>>

\* the tenant whose rule is in the firewall before the two invocations start
SeedAccount == <<"3">>
SeedVpc == <<"d">>
SeedMsgs ==
    {[event |-> "Update", account |-> SeedAccount, vpc |-> SeedVpc, region |-> RaceRegion,
      cidr |-> Cidrs[1], rules |-> RulesOf(SeedAccount, SeedVpc, hs, Sids[1])] :
        hs \in {{1}, {1, 2}}}

\* the handler object of worker w on the firewall as it is now
H(w) ==
    [fw |-> nfw, cur |-> RaceRegion, cache |-> wk[w].cache, pcache |-> wk[w].pcache,
     next |-> nextId, err |-> "none", calls |-> 0, stop |-> NoStop, limitAt |-> NoStop, refusals |-> 0, ord |-> "asc",
     lag |-> FALSE,
     xerr |-> "ResourceNotFoundException", rsid |-> Sids[1]]

\* every update_rule_group answers with a new UpdateToken
Bump(fw, always) ==
    [g \in DOMAIN tok |->
        IF g \in DOMAIN nfw[RaceRegion].rg /\ g \in DOMAIN fw[RaceRegion].rg
           /\ (g \in always \/ nfw[RaceRegion].rg[g] # fw[RaceRegion].rg[g])
        THEN tok[g] + 1 ELSE tok[g]]

Fail(w, e) == wk' = [wk EXCEPT ![w].pc = "failed", ![w].err = e]
FirewallSame == UNCHANGED <<nfw, nextId, tok>>
RaceFrame == UNCHANGED <<handled, last, vpcCidr, col>>

\* FirewallRuleHandler.__init__ and the guard of json_to_rule
RaceInit(w) ==
    /\ wk[w].pc = "init"
    /\ wk' = [wk EXCEPT ![w].cache = GetAllGroups(H(w)),
                        ![w].pcache = GetAllPolicies(H(w)),
                        ![w].pc = IF wk[w].todo = <<>> THEN "reserved" ELSE "entries"]
    /\ FirewallSame /\ RaceFrame

\* __add_rule_entry: _get_rule_entries and the search for the rule name
RaceGetRuleEntries(w) ==
    /\ wk[w].pc = "entries"
    /\ LET rd == GetRuleEntries(H(w))
           found == {i \in DOMAIN rd.entries :
                       GetRuleName(rd.entries[i].RuleString) = GetRuleName(Head(wk[w].todo))}
       IN IF rd.err # "none" THEN Fail(w, rd.err)
          ELSE wk' = [wk EXCEPT
                 ![w].entries = rd.entries,
                 ![w].flag = found # {},
                 ![w].arn = IF found = {} THEN NoArn
                            ELSE rd.entries[CHOOSE i \in found :
                                               \A j \in found : j <= i].RuleGroupARN,
                 ![w].pc = IF found = {} THEN "pick" ELSE "describe"]
    /\ FirewallSame /\ RaceFrame

\* __add_rule_entry: _get_rule_group; None ends the call, and the None of
\* the call made after InvalidTokenException is dropped by its caller
RaceGetRuleGroup(w) ==
    /\ wk[w].pc = "pick"
    /\ LET gr == GetRuleGroup(H(w))
       IN IF gr.err # "none" THEN Fail(w, gr.err)
          ELSE wk' = [wk EXCEPT
                 ![w].arn = gr.arn,
                 ![w].pc = IF gr.arn # NoArn THEN "describe"
                           ELSE IF wk[w].retry THEN "cleanup" ELSE "create"]
    /\ FirewallSame /\ RaceFrame

\* __add_rule_entry: describe_rule_group of the chosen group
RaceDescribe(w) ==
    /\ wk[w].pc = "describe"
    /\ LET e == DescribeErr(H(w), wk[w].arn)
       IN IF e # "none" THEN Fail(w, e)
          ELSE LET g == nfw[RaceRegion].rg[wk[w].arn.id]
               IN wk' = [wk EXCEPT ![w].vars = g.vars, ![w].ipsets = g.ipsets,
                                   ![w].token = tok[wk[w].arn.id],
                                   ![w].pc = "update"]
    /\ FirewallSame /\ RaceFrame

\* __add_rule_entry: update_rule_group with the UpdateToken of the describe;
\* on InvalidTokenException the method calls itself
RaceUpdate(w) ==
    /\ wk[w].pc = "update"
    /\ LET arn == wk[w].arn
           e == DescribeErr(H(w), arn)
           rule_string == Head(wk[w].todo)
           ip_set_name == IpSetName(wk[w].msg.account, wk[w].msg.vpc)
           new_rules == LinesOf(wk[w].entries, arn)
                        \o (IF wk[w].flag THEN <<>> ELSE <<rule_string>>)
           ip_sets == MapPut(IF wk[w].vars THEN wk[w].ipsets ELSE EmptyMap,
                             ip_set_name, wk[w].msg.cidr)
           s == UpdateRuleGroup(H(w), arn, new_rules, TRUE, ip_sets)
       IN IF e # "none" THEN Fail(w, e) /\ FirewallSame
          ELSE IF tok[arn.id] # wk[w].token
               THEN /\ wk' = [wk EXCEPT ![w].retry = TRUE, ![w].pc = "entries",
                                        ![w].attempts = @ + 1]
                    /\ FirewallSame
          ELSE /\ nfw' = s.fw
               /\ tok' = [tok EXCEPT ![arn.id] = @ + 1]
               /\ wk' = [wk EXCEPT ![w].pc = "cleanup",
                                   ![w].attempts = @ + 1,
                                   ![w].wrote = IF wk[w].flag THEN @ ELSE arn]
               /\ UNCHANGED nextId
    /\ RaceFrame

\* add_new_rule: _create_new_rule_group after __add_rule_entry returned None
RaceCreate(w) ==
    /\ wk[w].pc = "create"
    /\ LET s == CreateNewRuleGroup(H(w), Head(wk[w].todo), wk[w].msg.cidr,
                                   IpSetName(wk[w].msg.account, wk[w].msg.vpc))
       IN /\ s.next <= MaxIds + 1
          /\ nfw' = s.fw
          /\ nextId' = s.next
          /\ wk' = [wk EXCEPT ![w].cache = s.cache, ![w].pcache = s.pcache,
                              ![w].pc = IF s.err = "none" THEN "cleanup" ELSE "failed",
                              ![w].err = s.err]
    /\ UNCHANGED tok /\ RaceFrame

\* add_new_rule: _clean_up_rules, then the next rule of the message
RaceCleanUp(w) ==
    /\ wk[w].pc = "cleanup"
    /\ LET s == CleanUpRules(H(w), Keys(wk[w].msg), wk[w].msg.account, wk[w].msg.vpc)
       IN /\ nfw' = s.fw
          /\ tok' = Bump(s.fw, {})
          /\ wk' = [wk EXCEPT ![w].todo = Tail(@), ![w].retry = FALSE,
                              ![w].attempts = 0,
                              ![w].err = s.err,
                              ![w].pc = IF s.err # "none" THEN "failed"
                                        ELSE IF Tail(wk[w].todo) = <<>> THEN "reserved"
                                        ELSE "entries"]
    /\ UNCHANGED nextId /\ RaceFrame

\* execute_lambda.handler: create_reserved_rule_group
RaceReserved(w) ==
    /\ wk[w].pc = "reserved"
    /\ LET s == CreateReservedRuleGroup(H(w))
       IN /\ s.next <= MaxIds + 1
          /\ nfw' = s.fw
          /\ nextId' = s.next
          /\ tok' = Bump(s.fw, {a.id : a \in {x \in wk[w].cache : x.reserved}})
          /\ wk' = [wk EXCEPT ![w].cache = s.cache, ![w].pcache = s.pcache,
                              ![w].err = s.err,
                              ![w].pc = IF s.err = "none" THEN "done" ELSE "failed"]
    /\ RaceFrame

NoWorker(m) ==
    [pc |-> "init", msg |-> m, todo |-> m.rules, cache |-> {}, pcache |-> {},
     entries |-> <<>>, flag |-> FALSE, arn |-> NoArn, vars |-> FALSE, ipsets |-> EmptyMap,
     token |-> 0, retry |-> FALSE, attempts |-> 0, wrote |-> NoArn, err |-> "none",
     dels |-> <<>>, newr |-> <<>>, policy |-> 0, refs |-> <<>>, ptoken |-> 0]

\* the firewall one earlier invocation has left, and one record per worker
InitRace ==
    /\ \E seed \in SeedMsgs :
         LET s == Handler(NoFirewall, 1, seed, "asc", FALSE, "ResourceNotFoundException", Sids[1])
         IN nfw = Purge(s.fw) /\ nextId = s.next
    /\ handled = 0
    /\ last = [msg |-> NoMsg, err |-> "none"]
    /\ vpcCidr = [sc \in Scopes |-> NoCidr]
    /\ tok = [g \in 1..(MaxIds + 4) |-> 0]
    /\ col = NoCol
    /\ \E m1 \in UpdateMsgs({RaceRegion}, {RaceScope(1)}, {1}, AllRuns),
          m2 \in UpdateMsgs({RaceRegion}, {RaceScope(2)}, {1}, AllRuns) :
         wk = [w \in Workers |-> NoWorker(IF w = 1 THEN m1 ELSE m2)]

NextRace ==
    \E w \in Workers :
        \/ RaceInit(w)
        \/ RaceGetRuleEntries(w)
        \/ RaceGetRuleGroup(w)
        \/ RaceDescribe(w)
        \/ RaceUpdate(w)
        \/ RaceCreate(w)
        \/ RaceCleanUp(w)
        \/ RaceReserved(w)

SpecRace == InitRace /\ [][NextRace]_vars

----------------------------------------------------------------------------
(* What the last record handled was, and whether this step handled one *)

Ev == last.msg.event
A == last.msg.account
V == last.msg.vpc
Rg == last.msg.region

Handling == handled' = handled + 1

\* C1: after an Update for (A, V) with rules map R has been handled, the
\* live rule names with the prefix A-V- in the region are the keys of R,
\* whatever R is (empty included) and whatever was live before.
C1_UpdateConverges ==
    Ev = "Update" => LiveNames(nfw, Rg, A, V) = Keys(last.msg)

\* C2: handling an Update or a DeleteVpc for (A, V1) leaves every live
\* customer rule whose name does not have the prefix A-V1- where it was
\* and as it was, the rules of another account with the same VPC part too.
C2_ScopeIsolation ==
    [][(Handling /\ last'.msg.event \in {"Update", "DeleteVpc"}) =>
         \A l \in CustomerLines(nfw, last'.msg.region) :
            ~OfScope(l.line.name, last'.msg.account, last'.msg.vpc) =>
                l \in LiveLines(nfw', last'.msg.region)]_vars

\* C3: after a DeleteVpc for (A, V) has been handled, no rule group of the
\* region holds a rule named A-V-... and none holds the IP-set aAV.
C3_DeleteVpcRemovesScope ==
    Ev = "DeleteVpc" =>
        /\ LiveNames(nfw, Rg, A, V) = {}
        /\ \A s \in LiveIpSets(nfw, Rg) : s.name # IpSetName(A, V)

\* C4: when two invocations for different accounts have both inserted a
\* rule into the same rule group and both have completed without error,
\* both rules are live and both VPCs have their IP-set, whatever the
\* interleaving of their describe and update calls was.
C4_ConcurrentInsertsSurvive ==
    (/\ \A w \in Workers : wk[w].pc = "done" /\ wk[w].err = "none"
     /\ wk[1].wrote # NoArn
     /\ wk[1].wrote = wk[2].wrote) =>
        \A w \in Workers :
            /\ Keys(wk[w].msg) \subseteq
                  LiveNames(nfw, RaceRegion, wk[w].msg.account, wk[w].msg.vpc)
            /\ \E s \in LiveIpSets(nfw, RaceRegion) :
                  /\ s.name = IpSetName(wk[w].msg.account, wk[w].msg.vpc)
                  /\ s.cidr = wk[w].msg.cidr

\* C5: handling the same Update record twice in a row leaves, after the
\* second handling, the live state the first handling left: the same rule
\* groups with the same rules strings and IP-sets, the same policies with
\* the same references.
C5_UpdateIdempotent ==
    [][(Handling /\ Ev = "Update" /\ last'.msg = last.msg) => nfw' = nfw]_vars

\* C6: no customer rule group ever holds more rules than
\* RULE_GROUP_CAPACITY: a rule is never appended to a group whose consumed
\* capacity has reached the capacity, a new group is created instead.
C6_CapacityBound ==
    \A r \in Regions : \A g \in GroupIds(r) :
        ~nfw[r].rg[g].reserved => ConsumedCapacity(nfw[r].rg[g]) <= RULE_GROUP_CAPACITY

\* a group is full and the Update went on into a second customer group
C6_Witness ==
    /\ Ev = "Update"
    /\ \E g, h \in GroupIds("eu1") :
          /\ g # h
          /\ ~nfw["eu1"].rg[g].reserved /\ ~nfw["eu1"].rg[h].reserved
          /\ ConsumedCapacity(nfw["eu1"].rg[g]) = RULE_GROUP_CAPACITY
          /\ h > g

\* C7: every VPC with a live rule has its IP-set aAV in some rule group of
\* the region, holding the CIDR of the most recent Update handled for it.
C7_IpSetOfLiveVpc ==
    \A sc \in Scopes :
        LiveNames(nfw, "eu1", sc[1], sc[2]) # {} =>
            \E s \in LiveIpSets(nfw, "eu1") :
                s.name = IpSetName(sc[1], sc[2]) /\ s.cidr = vpcCidr[sc]

\* C8: two live rule lines with the same rule_name are the same line.
C8_OneLinePerName ==
    \A r \in Regions : \A l1, l2 \in LiveLines(nfw, r) :
        GetRuleName(l1.line) = GetRuleName(l2.line) => l1.line = l2.line

\* C9: after a DeleteS3 for account A has been handled, no rule of A and
\* no IP-set of A remains in the region, and the rules and IP-sets of the
\* other accounts are as they were.
C9_DeleteS3RemovesAccount ==
    [][(Handling /\ last'.msg.event = "DeleteS3") =>
         LET a == last'.msg.account
             r == last'.msg.region
         IN /\ \A l \in LiveLines(nfw', r) : l.line.name.account # a
            /\ \A s \in LiveIpSets(nfw', r) : ~IsPrefix(<<"a">> \o a, s.name)
            /\ \A l \in CustomerLines(nfw, r) :
                  l.line.name.account # a => l \in LiveLines(nfw', r)
            /\ \A s \in LiveIpSets(nfw, r) :
                  ~IsPrefix(<<"a">> \o a, s.name) => s \in LiveIpSets(nfw', r)]_vars

\* C10: after a DeleteAccount for account A has been handled, no rule of A
\* and no IP-set of A remains in any supported region.
C10_DeleteAccountAllRegions ==
    Ev = "DeleteAccount" =>
        \A i \in DOMAIN supported_regions :
            LET r == supported_regions[i]
            IN /\ \A l \in LiveLines(nfw, r) : l.line.name.account # A
               /\ \A s \in LiveIpSets(nfw, r) : ~IsPrefix(<<"a">> \o A, s.name)

----------------------------------------------------------------------------
(* The reserved rule group *)

ReservedIds(fw, r) == {g \in DOMAIN fw[r].rg : fw[r].rg[g].reserved}

\* the names of the rules a group holds
NamesIn(g) == {GetRuleName(g.rules[i]) : i \in DOMAIN g.rules}

\* the policies of a region that reference rule group id
Referencing(fw, r, id) ==
    {p \in DOMAIN fw[r].pol : \E i \in DOMAIN fw[r].pol[p].refs : fw[r].pol[p].refs[i].id = id}

\* C11: in each region there is at most one rule group whose name ends in
\* -reserved, whatever records have been handled and in whatever order.
C11_OneReservedGroup ==
    \A r \in Regions : Cardinality(ReservedIds(nfw, r)) <= 1

\* the firewall's own account and VPC as the scope of a record
OwnScopes == {<<FwAccount, FwVpc>>}

HandleUpdateTenant ==
    /\ handled < MaxMsgs
    /\ handled' = handled + 1
    /\ \E m \in UpdateMsgs({"eu1"}, SweepScopes, {1, 2}, AllRuns) : Handle(m, AllSids)

HandleDeleteVpcOwn ==
    /\ handled < MaxMsgs
    /\ handled' = handled + 1
    /\ \E m \in DeleteVpcMsgs({"eu1"}, OwnScopes) : Handle(m, AllSids)

HandleDeleteS3Own ==
    /\ handled < MaxMsgs
    /\ handled' = handled + 1
    /\ \E m \in DeleteS3Msgs({"eu1"}, {FwAccount}) : Handle(m, AllSids)

HandleDeleteAccountOwn ==
    /\ handled < MaxMsgs
    /\ handled' = handled + 1
    /\ \E m \in DeleteAccountMsgs({"eu1"}, {FwAccount}) : Handle(m, AllSids)

NextOwn ==
    HandleUpdateTenant \/ HandleDeleteVpcOwn \/ HandleDeleteS3Own \/ HandleDeleteAccountOwn

SpecOwn == Init /\ [][NextOwn]_vars

\* C12: handling a record, whatever its kind and scope, leaves every
\* reserved rule group in place with every rule it held and referenced by
\* every policy that referenced it.
C12_ReservedNeverDrained ==
    [][Handling =>
         \A r \in Regions : \A g \in ReservedIds(nfw, r) :
            /\ g \in DOMAIN nfw'[r].rg
            /\ NamesIn(nfw[r].rg[g]) \subseteq NamesIn(nfw'[r].rg[g])
            /\ Referencing(nfw, r, g) \subseteq Referencing(nfw', r, g)]_vars

----------------------------------------------------------------------------
(* The compiler (RuleCollect): one invocation of collect_lambda.handler    *)
(* turns one event into queue messages and tenant-log lines.  A file key   *)
(* and a VPC id are sequences of tokens.                                   *)

RegionNames == Regions
AnyChar == {".", "x"}

\* validate_file_name: re.search of <region>-config.(yaml|yml), the dot
\* unescaped and the pattern not anchored
ValidateFileName(input) ==
    \E i \in 1..(Len(input) - 3) :
        /\ input[i] \in RegionNames
        /\ input[i + 1] = "-config"
        /\ input[i + 2] \in AnyChar
        /\ input[i + 3] \in {"yaml", "yml"}

\* get_region_from_string: the first region name in the key
HasRegion(object_key) == \E i \in DOMAIN object_key : object_key[i] \in RegionNames

GetRegionFromString(object_key) ==
    object_key[CHOOSE i \in DOMAIN object_key :
                  /\ object_key[i] \in RegionNames
                  /\ \A j \in 1..(i - 1) : object_key[j] \notin RegionNames]

IsVpcPrefix(c) == c = "vpc-"
NotVpcPrefix(c) == ~IsVpcPrefix(c)

\* the VPC id kept as it came
StripVpcNot(vpc) == vpc

\* vpc.replace("vpc-", "")
StripVpc(vpc) == SelectSeq(vpc, NotVpcPrefix)

\* ConfigEntry.__init__
ConfigEntry(vpc, account, region, version) ==
    [vpc |-> StripVpc(vpc), account |-> account, region |-> region,
     version |-> version, ip_set_space |-> NoCidr, rules |-> <<>>]

\* ConfigEntry.get_json
GetJson(config) ==
    [VPC |-> config.vpc, Account |-> config.account, Region |-> config.region,
     CIDR |-> config.ip_set_space, Rules |-> config.rules]

\* a line of the tenant log
LogLine(level, what, vpc) == [level |-> level, what |-> what, vpc |-> vpc]

\* send_to_sqs with the VPC id as the message group
SendToSqsByVpc(c, eh_version, config, event_type) ==
    IF c.err # "none" THEN c
    ELSE IF c.ev.env.sendFail = Len(c.sent) + 1 THEN [c EXCEPT !.err = "InternalError"]
    ELSE [c EXCEPT !.sent = Append(@,
                [MessageGroupId |-> config.vpc,
                 MessageBody |-> GetJson(config),
                 Event |-> event_type,
                 Account |-> config.account,
                 Region |-> config.region,
                 Version |-> eh_version])]

\* EventHandler.send_to_sqs: the env.sendFail-th send of the invocation
\* fails, and then InternalError is raised
SendToSqs(c, eh_version, config, event_type) ==
    IF c.err # "none" THEN c
    ELSE IF c.ev.env.sendFail = Len(c.sent) + 1 THEN [c EXCEPT !.err = "InternalError"]
    ELSE [c EXCEPT !.sent = Append(@,
                [MessageGroupId |-> config.account,
                 MessageBody |-> GetJson(config),
                 Event |-> event_type,
                 Account |-> config.account,
                 Region |-> config.region,
                 Version |-> eh_version])]

\* an intent add_rule_entry rejects with FormatError
BadIntent == 0
RuleValid(intent) == intent # BadIntent

\* entry.add_rule_entry for every rule of the policy
AddRuleEntries(entry, intents, sid) ==
    [entry EXCEPT !.rules = RulesOf(entry.account, entry.vpc, intents, sid)]

\* get_policy_document, the loop over data["Config"]
RECURSIVE PolicyLoop(_, _, _, _, _)
PolicyLoop(config, account, region, env, acc) ==
    IF config = <<>> \/ acc.err # "none" THEN acc
    ELSE IF env.vpc[Head(config).VPC] = "missing"
         THEN [acc EXCEPT !.err = "FormatError"]
    ELSE IF env.vpc[Head(config).VPC] = "attached"
         THEN IF \E i \in Head(config).Properties : ~RuleValid(i)
              THEN [acc EXCEPT !.err = "FormatError"]
              ELSE PolicyLoop(Tail(config), account, region, env,
                     [acc EXCEPT !.policies = Append(@,
                         AddRuleEntries(
                            [ConfigEntry(Head(config).VPC, account, region, "1")
                                EXCEPT !.ip_set_space = env.cidr],
                            Head(config).Properties, env.sid))])
    ELSE PolicyLoop(Tail(config), account, region, env,
                    [acc EXCEPT !.skipped_vpc = Append(@, Head(config).VPC)])

\* get_policy_document
GetPolicyDocument(doc, account, region, env) ==
    IF ~doc.valid
    THEN [policies |-> <<>>, skipped_vpc |-> <<>>, err |-> "FormatError"]
    ELSE PolicyLoop(doc.Config, account, region, env,
                    [policies |-> <<>>, skipped_vpc |-> <<>>, err |-> "none"])

\* for rule in rules: eh.send_to_sqs(...)
RECURSIVE SendLoop(_, _, _, _)
SendLoop(c, eh_version, rules, rule_event) ==
    IF rules = <<>> THEN c
    ELSE SendLoop(SendToSqs(c, eh_version, Head(rules), rule_event),
                  eh_version, Tail(rules), rule_event)

\* a skipped VPC reported as an error
SkippedLogError(skipped_vpc) ==
    [i \in DOMAIN skipped_vpc |-> LogLine("ERROR", "skipped", skipped_vpc[i])]

\* one WARN line per skipped VPC
SkippedLog(skipped_vpc) ==
    [i \in DOMAIN skipped_vpc |-> LogLine("WARN", "skipped", skipped_vpc[i])]

\* the PutObject branch once the document has been read
PutObjectWith(c, version, pd) ==
    IF pd.err # "none"
    THEN [c EXCEPT !.log = Append(@, LogLine("ERROR", pd.err, <<>>)), !.err = pd.err]
    ELSE SendLoop([c EXCEPT !.log = @ \o SkippedLog(pd.skipped_vpc)],
                  version, pd.policies, "Update")

\* the aws.s3 branch of the handler
S3Branch(c, event) ==
    IF ~ValidateFileName(event.key)
    THEN [c EXCEPT !.log = Append(@, LogLine("ERROR", "filename", <<>>))]
    ELSE IF ~HasRegion(event.key)
    THEN [c EXCEPT !.log = Append(@, LogLine("ERROR", "FormatError", <<>>)),
                   !.err = "FormatError"]
    ELSE IF event.reason = "DeleteObject"
    THEN SendLoop(c, event.version,
                  <<ConfigEntry(<<>>, event.account, GetRegionFromString(event.key), "delete")>>,
                  "DeleteS3")
    ELSE IF event.reason = "PutObject"
    THEN PutObjectWith(c, event.version,
            GetPolicyDocument(event.doc, event.account,
                              GetRegionFromString(event.key), event.env))
    ELSE c

\* the aws.ec2 branch of the handler: the CloudTrail event of a VPC deletion
Ec2Branch(c, event) ==
    SendToSqs(c, event.vpcId,
              ConfigEntry(event.vpcId, event.account, event.region, "delete"),
              "DeleteVpc")

\* collect_lambda.handler
CollectHandler(event) ==
    IF event.source = "aws.ec2"
    THEN Ec2Branch([ev |-> event, sent |-> <<>>, log |-> <<>>, err |-> "none"], event)
    ELSE S3Branch([ev |-> event, sent |-> <<>>, log |-> <<>>, err |-> "none"], event)

----------------------------------------------------------------------------
(* The events the compiler receives *)

MaxVpcs == 2

RawVpcs == {<<"vpc-", "b">>, <<"vpc-", "b", "c">>}
VpcStates == {"missing", "detached", "attached"}
RuleSets == {{1}, {1, 2}, {BadIntent, 1}}
Keys5 ==
    {<<"eu1", "-config", ".", "yaml">>, <<"eu2", "-config", ".", "yml">>,
     <<"config", ".", "yaml">>, <<"eu1", "-rules", ".", "yaml">>,
     <<"x", "eu1", "-config", "x", "yaml", "x">>}
ObjectVersions == {"v7"}

\* environment of one invocation: the VPCs as EC2 shows them, the CIDR and
\* the sid drawn, and which send to the queue fails (0: none)
Envs(cidrs, sids) ==
    [vpc : [RawVpcs -> VpcStates], cidr : cidrs, sid : sids, sendFail : 0..MaxVpcs]

Policies == [VPC : RawVpcs, Properties : RuleSets]

\* the documents: every VPC listed once
Configs ==
    {<<p>> : p \in Policies} \cup
    UNION {{<<p, q>> : q \in {x \in Policies : x.VPC # p.VPC}} : p \in Policies}

Docs == [valid : BOOLEAN, Config : {c \in Configs : Len(c) <= MaxVpcs}]

NoDoc == [valid |-> FALSE, Config |-> <<>>]

Ec2Events ==
    [source : {"aws.ec2"}, vpcId : RawVpcs, account : Accounts, region : Regions,
     reason : {"DeleteVpc"}, key : {<<>>}, version : {""}, doc : {NoDoc},
     env : Envs({Cidrs[1]}, {Sids[1]})]

S3Events(reasons, docs) ==
    [source : {"aws.s3"}, vpcId : {<<>>}, account : {<<"1">>}, region : {""},
     reason : reasons, key : Keys5, version : ObjectVersions, doc : docs,
     env : Envs({Cidrs[1]}, {Sids[1]})]

Idle == col.out = NoOut

Collect(event) ==
    /\ Idle
    /\ col' = [col EXCEPT !.out = CollectHandler(event)]
    /\ UNCHANGED <<nfw, nextId, handled, last, vpcCidr, wk, tok>>

CollectDeleteVpc == \E event \in Ec2Events : Collect(event)
CollectPutObject == \E event \in S3Events({"PutObject"}, Docs) : Collect(event)
CollectDeleteObject == \E event \in S3Events({"DeleteObject"}, {NoDoc}) : Collect(event)

\* the invocation has ended
Return ==
    /\ ~Idle
    /\ col' = [col EXCEPT !.out = NoOut]
    /\ UNCHANGED <<nfw, nextId, handled, last, vpcCidr, wk, tok>>

NextCollect == CollectDeleteVpc \/ CollectPutObject \/ CollectDeleteObject \/ Return

SpecCollect == Init /\ [][NextCollect]_vars

----------------------------------------------------------------------------
(* What the last invocation of the compiler did *)

Out == col.out
Sent == Out.sent
OutEnv == Out.ev.env

IsPut == Out.ev.source = "aws.s3" /\ Out.ev.reason = "PutObject"
IsDeleteObject == Out.ev.source = "aws.s3" /\ Out.ev.reason = "DeleteObject"
IsDeleteVpc == Out.ev.source = "aws.ec2"

\* the VPCs the document lists, and those of them EC2 shows attached
Listed == {Out.ev.doc.Config[i].VPC : i \in DOMAIN Out.ev.doc.Config}
Attached == {v \in Listed : OutEnv.vpc[v] = "attached"}

\* the document passes the schema, its VPCs exist and the rules to be
\* compiled pass the rule validation
Validates ==
    /\ Out.ev.doc.valid
    /\ \A i \in DOMAIN Out.ev.doc.Config :
          /\ OutEnv.vpc[Out.ev.doc.Config[i].VPC] # "missing"
          /\ OutEnv.vpc[Out.ev.doc.Config[i].VPC] = "attached" =>
                \A r \in Out.ev.doc.Config[i].Properties : RuleValid(r)

MsgsFor(v) == {i \in DOMAIN Sent : Sent[i].MessageBody.VPC = StripVpc(v)}
WarnsFor(v) == {i \in DOMAIN Out.log : Out.log[i] = LogLine("WARN", "skipped", v)}
ErrorLines == {i \in DOMAIN Out.log : Out.log[i].level = "ERROR"}

C17_NoPartialEmission ==
    (IsPut /\ ValidateFileName(Out.ev.key)) =>
        \/ Out.err = "none" /\ \A v \in Attached : MsgsFor(v) # {}
        \/ Out.err # "none" /\ Sent = <<>>

\* C18: an S3 event whose key does not match the file name pattern makes
\* the invocation fail with FormatError, with an ERROR line in the tenant
\* log and no message enqueued.
C18_BadKeyFails ==
    (Out.ev.source = "aws.s3" /\ ~ValidateFileName(Out.ev.key)) =>
        /\ Out.err = "FormatError"
        /\ ErrorLines # {}
        /\ Sent = <<>>

\* the DeleteVpc message: one message, no rules, the VPC id without its
\* prefix, the version the VPC id of the event
DeleteVpcMessage ==
    /\ Len(Sent) = 1
    /\ Sent[1].MessageBody.Rules = <<>>
    /\ Sent[1].Event = "DeleteVpc"
    /\ Sent[1].MessageBody.VPC = Tail(Out.ev.vpcId)
    /\ Sent[1].MessageBody.Account = Out.ev.account
    /\ Sent[1].Version = Out.ev.vpcId

\* the DeleteObject message but for its version
DeleteObjectMessage ==
    /\ Len(Sent) = 1
    /\ Sent[1].MessageBody.Rules = <<>>
    /\ Sent[1].Event = "DeleteS3"
    /\ Sent[1].MessageBody.Account = Out.ev.account
    /\ Sent[1].Account = Out.ev.account
    /\ Sent[1].Region = GetRegionFromString(Out.ev.key)
    /\ Sent[1].MessageBody.Region = GetRegionFromString(Out.ev.key)

\* the event is one the compiler accepts and the queue takes the message
DeleteVpcSent == IsDeleteVpc /\ OutEnv.sendFail # 1
DeleteObjectSent == IsDeleteObject /\ ValidateFileName(Out.ev.key) /\ OutEnv.sendFail # 1

----------------------------------------------------------------------------
(* The FIFO queue between the compiler and the reconciler.  col.queue is   *)
(* every message sent so far, col.busy the messages in flight (received,   *)
(* not yet deleted), col.order the messages deleted, in that order.  A     *)
(* message is deleted when its invocation ends without error and becomes   *)
(* visible again when it fails.                                            *)

MaxQueue == 3

\* every VPC attached, every send accepted
QuietEnv ==
    [vpc |-> [v \in RawVpcs |-> "attached"], cidr |-> Cidrs[1], sid |-> Sids[1],
     sendFail |-> 0]

PutEvent(account, vpc, intents) ==
    [source |-> "aws.s3", vpcId |-> <<>>, account |-> account, region |-> "",
     reason |-> "PutObject", key |-> <<"eu1", "-config", ".", "yaml">>,
     version |-> "v7",
     doc |-> [valid |-> TRUE, Config |-> <<[VPC |-> vpc, Properties |-> intents]>>],
     env |-> QuietEnv]

VpcEvent(account, vpc) ==
    [source |-> "aws.ec2", vpcId |-> vpc, account |-> account, region |-> "eu1",
     reason |-> "DeleteVpc", key |-> <<>>, version |-> "", doc |-> NoDoc,
     env |-> QuietEnv]

RawScopes == {<<sc[1], <<"vpc-">> \o sc[2]>> : sc \in Scopes}

QueueEvents ==
    {PutEvent(sc[1], sc[2], {1}) : sc \in RawScopes} \cup
    {VpcEvent(sc[1], sc[2]) : sc \in RawScopes}

\* the record the reconciler makes of a message: the attributes Event and
\* Region and the fields of the body
ToRecord(msg) ==
    [event |-> msg.Event, account |-> msg.MessageBody.Account,
     vpc |-> msg.MessageBody.VPC, region |-> msg.Region,
     cidr |-> msg.MessageBody.CIDR, rules |-> msg.MessageBody.Rules]

Done == {col.order[i] : i \in DOMAIN col.order}

\* an invocation of the compiler whose messages go to the queue
Enqueue ==
    /\ Len(col.queue) < MaxQueue
    /\ \E event \in QueueEvents :
         col' = [col EXCEPT !.queue = @ \o CollectHandler(event).sent]
    /\ UNCHANGED <<nfw, nextId, handled, last, vpcCidr, wk, tok>>

\* the queue hands message i to an invocation of the reconciler: no
\* earlier message of its group is waiting or in flight
Receive ==
    /\ \E i \in DOMAIN col.queue :
         /\ i \notin col.busy \cup Done
         /\ \A j \in 1..(i - 1) :
               col.queue[j].MessageGroupId = col.queue[i].MessageGroupId => j \in Done
         /\ col' = [col EXCEPT !.busy = @ \cup {i}]
    /\ UNCHANGED <<nfw, nextId, handled, last, vpcCidr, wk, tok>>

\* the invocation handling message i ends
Finish ==
    /\ UNCHANGED handled
    /\ \E i \in col.busy :
         /\ HandleRecord(ToRecord(col.queue[i]), {Sids[1]})
         /\ col' = IF last'.err = "none"
                   THEN [col EXCEPT !.busy = @ \ {i}, !.order = Append(@, i)]
                   ELSE [col EXCEPT !.busy = @ \ {i}]

NextQueue == Enqueue \/ Receive \/ Finish

SpecQueue == Init /\ [][NextQueue]_vars

\* C15: every message in the queue has its account as MessageGroupId, no
\* two messages of one account are in flight at once, and a message is
\* handled only after every earlier message of its account has been
\* handled to the end.
C15_AccountOrder ==
    /\ \A i \in DOMAIN col.queue :
          col.queue[i].MessageGroupId = col.queue[i].MessageBody.Account
    /\ \A i, j \in col.busy :
          i # j => col.queue[i].MessageBody.Account # col.queue[j].MessageBody.Account
    /\ \A j \in col.busy \cup Done : \A i \in 1..(j - 1) :
          col.queue[i].MessageBody.Account = col.queue[j].MessageBody.Account =>
              i \in Done

\* two messages of one account have been handled one after the other while
\* a message of another account sent between them is in flight
C15_Witness ==
    /\ Len(col.queue) = 3
    /\ col.queue[1].MessageBody.Account = col.queue[3].MessageBody.Account
    /\ col.queue[2].MessageBody.Account # col.queue[1].MessageBody.Account
    /\ col.order = <<1, 3>>
    /\ col.busy = {2}

----------------------------------------------------------------------------
(* Compiler and reconciler together: the documents of one account are put  *)
(* one after the other (col.live, the last one being the live intent) and  *)
(* their messages are reconciled through the queue.                        *)

MaxPuts == 2

PipeAccount == <<"1">>

PipePolicies == [VPC : RawVpcs, Properties : {{1}, {2}, {1, 2}}]

PipeConfigs ==
    {<<p>> : p \in PipePolicies} \cup
    UNION {{<<p, q>> : q \in {x \in PipePolicies : x.VPC # p.VPC}} : p \in PipePolicies}

PutDoc(config) ==
    [source |-> "aws.s3", vpcId |-> <<>>, account |-> PipeAccount, region |-> "",
     reason |-> "PutObject", key |-> <<"eu1", "-config", ".", "yaml">>,
     version |-> "v7", doc |-> [valid |-> TRUE, Config |-> config], env |-> QuietEnv]

\* the tenant replaces the document; the compiler is invoked with it
PutObject ==
    /\ Len(col.live) < MaxPuts
    /\ \E config \in PipeConfigs :
         col' = [col EXCEPT !.live = Append(@, config),
                            !.queue = @ \o CollectHandler(PutDoc(config)).sent]
    /\ UNCHANGED <<nfw, nextId, handled, last, vpcCidr, wk, tok>>

NextPipe == PutObject \/ Receive \/ Finish

SpecPipe == Init /\ [][NextPipe]_vars

\* the rule names the live document holds for a VPC
Intended(vpc) ==
    UNION {{RuleName(PipeAccount, StripVpc(vpc), Hashes[k]) :
               k \in col.live[Len(col.live)][i].Properties} :
           i \in {j \in DOMAIN col.live[Len(col.live)] :
                     col.live[Len(col.live)][j].VPC = vpc}}

AllReconciled == col.busy = {} /\ Done = DOMAIN col.queue

\* C13: once every message produced for the documents put so far has been
\* reconciled, the live rules of each VPC of the account are rules the live
\* document lists for that VPC: none of a VPC it no longer lists, none it
\* no longer lists for a VPC.
C13_UnreferencedRulesDestroyed ==
    (col.live # <<>> /\ AllReconciled) =>
        \A v \in RawVpcs :
            LiveNames(nfw, "eu1", PipeAccount, StripVpc(v)) \subseteq Intended(v)

----------------------------------------------------------------------------
(* Invocations that are cut off, and the record handled again: the queue   *)
(* hands a record whose invocation failed to the next invocation.          *)

MaxStop == 3

RetryScopes == {<<(<<"1">>), (<<"b">>)>>}

RetryMsgs ==
    UpdateMsgs({"eu1"}, RetryScopes, {1, 2}, {1}) \cup DeleteVpcMsgs({"eu1"}, RetryScopes)

\* an invocation that runs to its end or is cut off after stop writing calls
HandleOrAbort ==
    /\ handled < MaxMsgs + 1
    /\ handled' = handled + 1
    /\ last.err = "none"
    /\ \E m \in RetryMsgs, stop \in {NoStop} \cup 0..MaxStop :
         Commit(m, HandlerUntil(nfw, nextId, m, stop))
    /\ UNCHANGED <<vpcCidr, wk, tok, col>>

\* the record of the failed invocation is handled again, to the end
Retry ==
    /\ handled < MaxMsgs + 1
    /\ handled' = handled + 1
    /\ last.err # "none"
    /\ Commit(last.msg, HandlerUntil(nfw, nextId, last.msg, NoStop))
    /\ UNCHANGED <<vpcCidr, wk, tok, col>>

NextRetry == HandleOrAbort \/ Retry

SpecRetry == Init /\ [][NextRetry]_vars

\* the rule groups of a region that hold rules and that no policy references
Unreferenced(fw, r) ==
    {g \in DOMAIN fw[r].rg : fw[r].rg[g].rules # <<>> /\ Referencing(fw, r, g) = {}}

\* the state a record asks for, as far as its scope goes
TargetState(fw, m) ==
    IF m.event = "Update" THEN LiveNames(fw, m.region, m.account, m.vpc) = Keys(m)
    ELSE LiveNames(fw, m.region, m.account, m.vpc) = {}

\* C14: when the invocation handling a record has been cut off or has
\* failed, handling the same record again with nothing in between runs to
\* its end without error and leaves the record's target state, and every
\* rule group that holds rules is referenced by a policy.
C14_RetryHeals ==
    [][(Handling /\ last.err # "none" /\ last'.msg = last.msg) =>
          /\ last'.err = "none"
          /\ TargetState(nfw', last'.msg)
          /\ \A r \in Regions : Unreferenced(nfw', r) = {}]_vars

----------------------------------------------------------------------------
(* Rule strings as text.  A string is a sequence of tokens: the characters *)
(* of the parts the tenant and the environment supply (account, VPC id,    *)
(* protocol key, domain, digest) and the words and punctuation of the      *)
(* fixed text.  The compiler writes the rule string of a predefined rule   *)
(* and the reconciler reads the rule name back with its regex.             *)

Digits == {"0", "1", "2", "3", "10", "13", "100"}
NonAlnum ==
    {" ", "-", ".", ";", ":", ",", "(", ")", "$", "->", "\"", "$EXTERNAL_NET",
     "rule_name", "to_server", "'", "<>", "\n"}

IsDigit(c) == c \in Digits
IsAlnum(c) == c \notin NonAlnum

\* the end of the longest run of digits (of alphanumerics) that starts at
\* i; i - 1 when there is none
DigitsEnd(s, i) ==
    CHOOSE j \in (i - 1)..Len(s) :
        /\ \A k \in i..j : IsDigit(s[k])
        /\ j = Len(s) \/ ~IsDigit(s[j + 1])

AlnumEnd(s, i) ==
    CHOOSE j \in (i - 1)..Len(s) :
        /\ \A k \in i..j : IsAlnum(s[k])
        /\ j = Len(s) \/ ~IsAlnum(s[j + 1])

HyphenAt(s, i) == i <= Len(s) /\ s[i] = "-"

\* where a match of [0-9]+-[0-9a-zA-Z]+-[0-9a-zA-Z]+ that starts at i
\* ends; 0 when none starts there
LastPart(s, a) == IF AlnumEnd(s, a) < a THEN 0 ELSE AlnumEnd(s, a)

MiddlePart(s, a) ==
    IF AlnumEnd(s, a) < a \/ ~HyphenAt(s, AlnumEnd(s, a) + 1) THEN 0
    ELSE LastPart(s, AlnumEnd(s, a) + 2)

MatchEnd(s, i) ==
    IF DigitsEnd(s, i) < i \/ ~HyphenAt(s, DigitsEnd(s, i) + 1) THEN 0
    ELSE MiddlePart(s, DigitsEnd(s, i) + 2)

Matches(s) == {i \in DOMAIN s : MatchEnd(s, i) # 0}

FirstMatch(s) == CHOOSE i \in Matches(s) : \A j \in Matches(s) : i <= j

\* _get_rule_name_from_rule_string on the text of a rule: matches[0] of
\* re.search, the leftmost match (no match: nothing to return)
GetRuleNameFromRuleString(suricata_rule) ==
    IF Matches(suricata_rule) = {} THEN <<>>
    ELSE SubSeq(suricata_rule, FirstMatch(suricata_rule),
                MatchEnd(suricata_rule, FirstMatch(suricata_rule)))

\* str.lower() and str.replace(" ", "")
LowerChar(c) == IF c = "X" THEN "x" ELSE IF c = "S" THEN "s" ELSE c
NotSpace(c) == c # " "
Normalise(rule) == [i \in DOMAIN SelectSeq(rule, NotSpace) |->
                      LowerChar(SelectSeq(rule, NotSpace)[i])]

\* str.join: the characters of protocol with domain between them
RECURSIVE Join(_, _)
Join(domain, protocol) ==
    IF Len(protocol) <= 1 THEN protocol
    ELSE <<Head(protocol)>> \o domain \o Join(domain, Tail(protocol))

\* a digest of the bytes, two hex digits wide
Alphabet ==
    <<"0", "1", "2", "3", "a", "b", "c", "h", "p", "s", "t", "x", "-", ".", ":">>
HexDigits == <<"a", "d", "e", "7">>

Code(c) == IF \E i \in DOMAIN Alphabet : Alphabet[i] = c
           THEN CHOOSE i \in DOMAIN Alphabet : Alphabet[i] = c
           ELSE 0

RECURSIVE Sum(_, _)
Sum(bytes, weight) ==
    IF bytes = <<>> THEN 0
    ELSE (Code(Head(bytes)) * weight + Sum(Tail(bytes), weight + 1)) % 256

\* hashlib.md5(hash_input.encode()).hexdigest()[:10]
Md5Hex10(hash_input) ==
    <<HexDigits[(Sum(hash_input, 1) % 4) + 1], HexDigits[((Sum(hash_input, 3) \div 4) % 4) + 1]>>

\* data/protocols.yaml, PredfinedRuleProtocols
Https == <<"h", "t", "t", "p", "s">>
Http == <<"h", "t", "t", "p">>
predefined_rule_protocols ==
    (Https :> <<"tls", ".", "sni">>) @@ (Http :> <<"http", ".", "host">>)

\* _protocol_selector
ProtocolSelector(protocol) == predefined_rule_protocols[protocol]

\* s_rule.split(".", maxsplit=1)[0]
FirstDot(s) == CHOOSE i \in 1..(Len(s) + 1) :
                  /\ i = Len(s) + 1 \/ s[i] = "."
                  /\ \A j \in 1..(i - 1) : s[j] # "."
BeforeDot(s) == SubSeq(s, 1, FirstDot(s) - 1)

\* re.match(r"^.+:\d+$", domain): a port after the last colon
HasPort(domain) ==
    \E i \in 2..(Len(domain) - 1) :
        domain[i] = ":" /\ \A k \in (i + 1)..Len(domain) : IsDigit(domain[k])

FirstColon(s) == CHOOSE i \in DOMAIN s : s[i] = ":" /\ \A j \in 1..(i - 1) : s[j] # ":"
LastColon(s) == CHOOSE i \in DOMAIN s : s[i] = ":" /\ \A j \in (i + 1)..Len(s) : s[j] # ":"

\* domain.split(":")[-1] and domain.split(":")[0]
PortOf(domain) == IF HasPort(domain) THEN SubSeq(domain, LastColon(domain) + 1, Len(domain))
                  ELSE <<"any">>
HostOf(domain) == IF HasPort(domain) THEN SubSeq(domain, 1, FirstColon(domain) - 1)
                  ELSE domain

\* _is_valid_domain: not re.match(rf"^\.[a-zA-Z]{2,}$", domainstring).  The
\* pattern is an f-string, so {2,} is the replacement field of the tuple
\* (2,): the pattern compiled is ^\.[a-zA-Z](2,)$, a dot, one letter and
\* the text 2,
IsLetter(c) == IsAlnum(c) /\ ~IsDigit(c)
IsValidDomain(domainstring) ==
    ~(/\ Len(domainstring) = 4
      /\ domainstring[1] = "."
      /\ IsLetter(domainstring[2])
      /\ domainstring[3] = "2"
      /\ domainstring[4] = ",")

\* f"{self.account}-{self.vpc}-{rule_name_hash}"
RuleNameText(entry, hash_input) ==
    entry.account \o <<"-">> \o entry.vpc \o <<"-">> \o Md5Hex10(hash_input)

\* self.priority
PriorityText(default_order) ==
    IF default_order THEN <<"priority", ":", "100", ";">> ELSE <<>>

\* the rule string of a predefined rule, with or without dotprefix
PolicyText(entry, s_rule, host, d_port, priority, sid, rule_name) ==
    <<"pass", " ">> \o BeforeDot(s_rule) \o <<" ", "$", "a">> \o entry.account \o entry.vpc
    \o <<" ", "any", " ", "->", " ", "$EXTERNAL_NET", " ">> \o d_port \o <<" ", "(">>
    \o s_rule \o <<";", " ">>
    \o (IF host[1] = "." THEN <<"dotprefix", ";", " ">> ELSE <<>>)
    \o <<"content", ":", "\"">> \o host \o <<"\"", ";", " ">>
    \o (IF host[1] = "." THEN <<>> ELSE <<"startswith", ";", " ">>)
    \o <<"endswith", ";", " ">> \o priority
    \o <<"flow", ":", "to_server", ",", " ", "established", ";", " ",
         "sid", ":", sid, ";", " ", "rev", ":", "1", ";", " ",
         "metadata", ":", " ", "rule_name", " ">> \o rule_name \o <<";", ")">>

\* _generate_predefined_rule: the entry of self.rules, or FormatError
GeneratePredefinedRule(entry, protocol, domain, priority, sid) ==
    IF ~IsValidDomain(HostOf(domain))
    THEN [err |-> "FormatError", rules |-> <<>>]
    ELSE [err |-> "none",
          rules |-> <<[key |-> RuleNameText(entry, Join(domain, protocol)),
                       text |-> PolicyText(entry, ProtocolSelector(protocol), HostOf(domain),
                                           PortOf(domain), priority, sid,
                                           RuleNameText(entry, Join(domain, protocol)))]>>]

\* add_rule_entry with a predefined protocol key
AddRuleEntryText(entry, rule_key, rule, default_order, sid) ==
    GeneratePredefinedRule(entry, rule_key, Normalise(rule), PriorityText(default_order), sid)

\* the domains of the intents
Domains ==
    {<<"x", ".", "c">>, <<"X", " ", ".", "c">>, <<".", "x", ".", "c">>,
     <<"x", ".", "c", ":", "3">>, <<".", "c", "c">>,
     <<"s", "3", "-", "b", "-", "c", ".", "x">>, <<"a", "-", "b", ".", "c">>,
     <<".", "c", "2", ",">>}
SidTexts == {"10", "13"}

RuleIntents ==
    [source : {"rule"}, account : Accounts, vpc : RawVpcs, protocol : {Https, Http},
     domain : Domains, default_order : BOOLEAN, sid : SidTexts]

Compiled(ev) ==
    AddRuleEntryText(ConfigEntry(ev.vpc, ev.account, "eu1", "1"), ev.protocol, ev.domain,
                     ev.default_order, ev.sid)

\* one rule of a document is compiled
CompileRule ==
    /\ Idle
    /\ \E ev \in RuleIntents :
         col' = [col EXCEPT !.out = [ev |-> ev, sent |-> Compiled(ev).rules,
                                     log |-> <<>>, err |-> Compiled(ev).err]]
    /\ UNCHANGED <<nfw, nextId, handled, last, vpcCidr, wk, tok>>

\* C20: the rule name the reconciler reads from the rule string the
\* compiler has emitted is the key the compiler emitted it under, that key
\* is <account>-<vpc>-<digest>, and compiling the same intent again, with
\* whatever sid, gives the same key.
C20_RuleNameRoundTrip ==
    (Out.ev.source = "rule" /\ Out.err = "none") =>
        /\ GetRuleNameFromRuleString(Sent[1].text) = Sent[1].key
        /\ IsPrefix(Out.ev.account \o <<"-">> \o StripVpc(Out.ev.vpc) \o <<"-">>, Sent[1].key)
        /\ \A sid \in SidTexts :
              Compiled([Out.ev EXCEPT !.sid = sid]).rules[1].key = Sent[1].key

\* C21: compiling the same intent (same account, VPC and rule spec) in
\* another run gives the same sid, so the rule string the other run emits
\* is the rule string this run has emitted, token for token.
C21_SidDeterministic ==
    (Out.ev.source = "rule" /\ Out.err = "none") =>
        \A sid \in SidTexts :
            Compiled([Out.ev EXCEPT !.sid = sid]).rules[1].text = Sent[1].text

----------------------------------------------------------------------------
(* Custom rules: the spec of the intent is a whole Suricata rule without   *)
(* meta stamps; the compiler validates it and stamps it.                   *)

\* RESERVED_META_KEYWORDS
RESERVED_META_KEYWORDS ==
    {"msg", "sid", "rev", "gid", "classtype", "reference", "priority", "metadata",
     "target"}

\* data/protocols.yaml, CustomRuleProtocols, and self.allowed_protocols
custom_rule_protocols == <<"tls", "http">>
allowed_protocols == <<"https", "http">> \o custom_rule_protocols

IsSpace(c) == c \in {" ", "\n"}

\* re.search(r"\((.*)\)$", rule): the leftmost ( that reaches the ) at the
\* end of the string with no line break between (no rule here ends in a
\* line break)
OptionStarts(rule) ==
    {i \in 1..(Len(rule) - 1) :
        /\ rule[i] = "("
        /\ rule[Len(rule)] = ")"
        /\ \A k \in (i + 1)..(Len(rule) - 1) : rule[k] # "\n"}
HasOptions(rule) == OptionStarts(rule) # {}
OptionStart(rule) == CHOOSE i \in OptionStarts(rule) : \A j \in OptionStarts(rule) : i <= j
\* rule_options.group(0) and rule_options.group(1)
Group0(rule) == SubSeq(rule, OptionStart(rule), Len(rule))
Group1(rule) == SubSeq(rule, OptionStart(rule) + 1, Len(rule) - 1)

\* ruleoptions.replace(" ", "")
Stripped(ruleoptions) == SelectSeq(ruleoptions, NotSpace)

\* s.split(";", 1)[0]
FirstSemi(s) == CHOOSE i \in 1..(Len(s) + 1) :
                   /\ i = Len(s) + 1 \/ s[i] = ";"
                   /\ \A j \in 1..(i - 1) : s[j] # ";"
BeforeSemi(s) == SubSeq(s, 1, FirstSemi(s) - 1)

\* s.strip(chars): the leading and the trailing characters of chars removed
FirstKept(s, chars) == CHOOSE i \in 1..(Len(s) + 1) :
                          /\ i = Len(s) + 1 \/ s[i] \notin chars
                          /\ \A j \in 1..(i - 1) : s[j] \in chars
LastKept(s, chars) == CHOOSE i \in 0..Len(s) :
                         /\ i = 0 \/ s[i] \notin chars
                         /\ \A j \in (i + 1)..Len(s) : s[j] \in chars
Strip(s, chars) == SubSeq(s, FirstKept(s, chars), LastKept(s, chars))

\* protocol_key
ProtocolKey(stripped) == Strip(BeforeSemi(stripped), {"(", ")"})

\* re.search(r"content:(.*?);", stripped): the leftmost content: that a ;
\* follows on the same line, and the text up to the first such ;
ContentStarts(s) ==
    {i \in 1..(Len(s) - 2) :
        /\ s[i] = "content" /\ s[i + 1] = ":"
        /\ \E j \in (i + 2)..Len(s) :
              s[j] = ";" /\ \A k \in (i + 2)..(j - 1) : s[k] # "\n"}
HasContent(s) == ContentStarts(s) # {}
ContentStart(s) == CHOOSE i \in ContentStarts(s) : \A j \in ContentStarts(s) : i <= j
ContentEnd(s, i) == CHOOSE j \in (i + 2)..Len(s) :
                       s[j] = ";" /\ \A k \in (i + 2)..(j - 1) : s[k] # ";"
ContentValue(s) == SubSeq(s, ContentStart(s) + 2, ContentEnd(s, ContentStart(s)) - 1)

\* rulestring.split(): the fields between runs of white space
RECURSIVE Split(_, _)
Split(s, cur) ==
    IF s = <<>> THEN (IF cur = <<>> THEN <<>> ELSE <<cur>>)
    ELSE IF IsSpace(Head(s))
         THEN (IF cur = <<>> THEN <<>> ELSE <<cur>>) \o Split(Tail(s), <<>>)
         ELSE Split(Tail(s), Append(cur, Head(s)))

\* keyword + ":" in rule_options_stripped, for some reserved keyword
HasReserved(stripped) ==
    \E i \in 1..(Len(stripped) - 1) :
        stripped[i] \in RESERVED_META_KEYWORDS /\ stripped[i + 1] = ":"

\* the words of the rules that hold a protocol name as a piece of text
WordHas(word, proto) ==
    \/ word = proto
    \/ proto = "http" /\ word = "https"

OneDigit(c) == c \in {"0", "1", "2", "3"}

\* (any|\d{1,5}) in the f-string: any, or a digit and the text (1, 5) of the
\* tuple, which is the group 1, 5; the index after the port, 0 for none
AfterPort(s, i) ==
    IF i <= Len(s) /\ s[i] = "any" THEN i + 1
    ELSE IF i + 4 <= Len(s) /\ OneDigit(s[i])
            /\ SubSeq(s, i + 1, i + 4) = <<"1", ",", " ", "5">> THEN i + 5
    ELSE 0

\* the rest of the base format after the source variable, from index i:
\* \s port \s (->|<>) \s \$EXTERNAL_NET \s port \s \(.*\)$
TailOfBase(s, i) ==
    /\ i + 2 <= Len(s)
    /\ IsSpace(s[i]) /\ s[i + 1] = "("
    /\ s[Len(s)] = ")"
    /\ \A k \in (i + 2)..(Len(s) - 1) : s[k] # "\n"

RestOfBase(s, i) ==
    /\ i + 4 <= Len(s)
    /\ IsSpace(s[i]) /\ s[i + 1] \in {"->", "<>"} /\ IsSpace(s[i + 2])
    /\ s[i + 3] = "$EXTERNAL_NET" /\ IsSpace(s[i + 4])
    /\ AfterPort(s, i + 5) # 0
    /\ TailOfBase(s, AfterPort(s, i + 5))

RestAfter(s, i) ==
    /\ i <= Len(s) /\ IsSpace(s[i])
    /\ AfterPort(s, i + 1) # 0
    /\ RestOfBase(s, AfterPort(s, i + 1))

\* the pattern of the base format: '|'.join(allowed_protocols) is not in a
\* group, so the alternatives of the whole pattern are
\*   ^(pass)\s<first>  |  <each middle one>  |  <last>\s\$a(\w*)\s ... \(.*\)$
\* and re.search looks for any of them anywhere in the string
FirstAlternative(s) ==
    /\ Len(s) >= 3
    /\ s[1] = "pass" /\ IsSpace(s[2]) /\ WordHas(s[3], allowed_protocols[1])

MiddleAlternative(s) ==
    \E i \in DOMAIN s, k \in 2..(Len(allowed_protocols) - 1) :
        WordHas(s[i], allowed_protocols[k])

LastAlternative(s) ==
    \E i \in 1..(Len(s) - 3) :
        /\ WordHas(s[i], allowed_protocols[Len(allowed_protocols)])
        /\ IsSpace(s[i + 1]) /\ s[i + 2] = "$" /\ s[i + 3] = "a"
        /\ RestAfter(s, AlnumEnd(s, i + 4) + 1)

BaseFormat(rulestring) ==
    FirstAlternative(rulestring) \/ MiddleAlternative(rulestring)
        \/ LastAlternative(rulestring)

TlsSni == <<"tls", ".", "sni">>
HttpHost == <<"http", ".", "host">>

\* _validate_custom_rule_format: the exception it raises, "none" for True
ValidateCustomRuleFormat(entry, rulestring, ruleoptions) ==
    IF ~BaseFormat(rulestring) THEN "FormatError"
    ELSE IF ~HasContent(Stripped(ruleoptions)) THEN "FormatError"
    ELSE IF /\ ProtocolKey(Stripped(ruleoptions)) \in {TlsSni, HttpHost}
            /\ ~IsValidDomain(Strip(ContentValue(Stripped(ruleoptions)), {"'", "\""}))
         THEN "FormatError"
    ELSE IF Len(Split(rulestring, <<>>)) < 3 THEN "IndexError"
    ELSE IF Split(rulestring, <<>>)[3] # <<"$", "a">> \o entry.account \o entry.vpc
         THEN "FormatError"
    ELSE IF HasReserved(Stripped(ruleoptions)) THEN "FormatError"
    ELSE "none"

\* new_rule_options, and re.sub of the options by them
StampedText(rule, priority, sid, rule_name) ==
    SubSeq(rule, 1, OptionStart(rule) - 1) \o <<"(">> \o Group1(rule) \o priority
    \o <<"sid", ":", sid, ";", "rev", ":", "1", ";",
         "metadata", ":", " ", "rule_name", " ">> \o rule_name \o <<";", ")">>

\* _generate_custom_rule: the entry of self.rules, or the exception
GenerateCustomRule(entry, rule, priority, sid) ==
    IF ~HasOptions(rule) THEN [err |-> "FormatError", rules |-> <<>>]
    ELSE IF ValidateCustomRuleFormat(entry, rule, Group0(rule)) # "none"
    THEN [err |-> ValidateCustomRuleFormat(entry, rule, Group0(rule)), rules |-> <<>>]
    ELSE [err |-> "none",
          rules |-> <<[key |-> RuleNameText(entry, rule),
                       text |-> StampedText(rule, priority, sid,
                                            RuleNameText(entry, rule))]>>]

\* get_policy_document: what an exception of add_rule_entry is raised as
Surfaced(err) ==
    IF err \in {"none", "FormatError"} THEN err
    ELSE IF err = "NotSupportedProtocol" THEN "FormatError"
    ELSE "InternalError"

\* the custom rules of the intents: a protocol, a source variable and an
\* options block, and rules that lack a part
SourceVars == {<<"$", "a", "1", "b">>, <<"$", "a", "1", "b", "c">>, <<"$", "a", "2", "b">>}

Quoted(domain) == <<"content", ":", "\"">> \o domain \o <<"\"", ";">>

OptionBlocks ==
    {<<"(", "tls", ".", "sni", ";", " ">> \o Quoted(<<"x", ".", "c">>) \o <<" ", "endswith", ";", ")">>,
     <<"(", "tls", ".", "sni", ";", " ", "dotprefix", ";", " ">> \o Quoted(<<".", "c", "c">>) \o <<")">>,
     <<"(", "http", ".", "host", ";", " ">> \o Quoted(<<".", "c", "2", ",">>) \o <<")">>,
     <<"(", "tls", ".", "sni", ";">> \o Quoted(<<"x", ".", "c">>) \o <<"sid", ":", "3", ";", ")">>,
     <<"(", "tls", ".", "sni", ";">> \o Quoted(<<"x", ".", "c">>) \o <<" ", "rev", " ", ":", "3", ";", ")">>,
     <<"(", "tls", ".", "sni", ";">> \o Quoted(<<"x", ".", "c">>)
        \o <<"metadata", ":", " ", "rule_name", " ", "2", "-", "b", "-", "a", "d", ";", ")">>,
     <<"(", "bad", ".", "bad", ";", " ">> \o Quoted(<<"x", ".", "c">>) \o <<")">>,
     <<"(", "tls", ".", "sni", ";", ")">>,
     <<"(">> \o Quoted(<<"x">>) \o <<")">>}

CustomText(proto, src, opts) ==
    <<"pass", " ", proto, " ">> \o src
    \o <<" ", "any", " ", "->", " ", "$EXTERNAL_NET", " ", "any", " ">> \o opts

\* a rule string of two lines: a stamped rule of the tenant's own VPC, then
\* a rule whose source is the variable of another account's VPC
TwoLines ==
    CustomText("tls", <<"$", "a", "1", "b">>,
               <<"(", "tls", ".", "sni", ";">> \o Quoted(<<"x", ".", "c">>) \o <<"sid", ":", "3", ";", ")">>)
    \o <<"\n">>
    \o CustomText("tls", <<"$", "a", "2", "b">>,
                  <<"(", "tls", ".", "sni", ";">> \o Quoted(<<"x", ".", "c">>) \o <<")">>)

CustomRules ==
    {CustomText(proto, src, opts) :
        proto \in {"tls", "tcp"}, src \in SourceVars, opts \in OptionBlocks}
    \cup {<<"pass", " ", "tls", " ", "$", "a", "1", "b", " ", "any">>,
          <<"pass", " ", "https", "(">> \o Quoted(<<"x">>) \o <<"sid", ":", "3", ";", ")">>,
          TwoLines}

CustomIntents ==
    [source : {"custom"}, account : Accounts, vpc : RawVpcs, rule : CustomRules,
     default_order : BOOLEAN, sid : SidTexts]

CompiledCustom(ev) ==
    GenerateCustomRule(ConfigEntry(ev.vpc, ev.account, "eu1", "1"), ev.rule,
                       PriorityText(ev.default_order), ev.sid)

\* one custom rule of a document is compiled
CompileCustom ==
    /\ Idle
    /\ \E ev \in CustomIntents :
         col' = [col EXCEPT !.out = [ev |-> ev, sent |-> CompiledCustom(ev).rules,
                                     log |-> <<>>, err |-> CompiledCustom(ev).err]]
    /\ UNCHANGED <<nfw, nextId, handled, last, vpcCidr, wk, tok>>

NextCompile == CompileRule \/ CompileCustom \/ Return

SpecCompile == Init /\ [][NextCompile]_vars

IsCustom == Out.ev.source = "custom"
\* the options of the custom rule compiled, as the tenant wrote them
TenantOptions ==
    SubSeq(Out.ev.rule,
           CHOOSE i \in 1..(Len(Out.ev.rule) + 1) :
              /\ i = Len(Out.ev.rule) + 1 \/ Out.ev.rule[i] = "("
              /\ \A j \in 1..(i - 1) : Out.ev.rule[j] # "(",
           Len(Out.ev.rule))

\* a lone top-level domain: a dot and two or more letters
LoneTld(d) == Len(d) >= 3 /\ d[1] = "." /\ \A k \in 2..Len(d) : IsLetter(d[k])

Rejected == Out.err = "FormatError" /\ Sent = <<>>

\* the custom rule compiled is a tls.sni or http.host rule whose content
\* value is a lone top-level domain
CustomLoneTld ==
    /\ IsCustom /\ HasOptions(Out.ev.rule)
    /\ ProtocolKey(Stripped(Group0(Out.ev.rule))) \in {TlsSni, HttpHost}
    /\ HasContent(Stripped(Group0(Out.ev.rule)))
    /\ LoneTld(Strip(ContentValue(Stripped(Group0(Out.ev.rule))), {"'", "\""}))

\* C22: a predefined rule spec whose bare domain is a lone top-level
\* domain, and a custom tls.sni or http.host rule whose content value is
\* one, is rejected with FormatError and adds no rule.
C22_LoneTldRejected ==
    /\ (Out.ev.source = "rule" /\ LoneTld(HostOf(Normalise(Out.ev.domain)))) => Rejected
    /\ CustomLoneTld => Rejected

\* C23: a custom rule whose options hold a reserved keyword followed by a
\* colon is rejected with FormatError and adds no rule, so an emitted
\* custom rule holds no sid, rev or metadata but the stamp of the compiler.
C23_ReservedKeywordRejected ==
    (IsCustom /\ HasReserved(Stripped(TenantOptions))) => Rejected

\* the first option of the custom rule compiled is a bare keyword that is
\* not a keyword of the protocol table
NamesUnsupportedProtocol ==
    /\ IsCustom /\ HasOptions(Out.ev.rule)
    /\ ProtocolKey(Stripped(Group0(Out.ev.rule))) # <<>>
    /\ \A i \in DOMAIN ProtocolKey(Stripped(Group0(Out.ev.rule))) :
          ProtocolKey(Stripped(Group0(Out.ev.rule)))[i] # ":"
    /\ ProtocolKey(Stripped(Group0(Out.ev.rule))) \notin {TlsSni, HttpHost}

\* C24: a custom rule whose options name a protocol keyword that is not in
\* the protocol table is rejected (NotSupportedProtocol, surfaced as
\* FormatError) and adds no rule.
C24_UnsupportedProtocolRejected ==
    NamesUnsupportedProtocol =>
        /\ Out.err \in {"NotSupportedProtocol", "FormatError"}
        /\ Surfaced(Out.err) = "FormatError"
        /\ Sent = <<>>

\* the lines of a rule string
RECURSIVE SplitLines(_, _)
SplitLines(s, cur) ==
    IF s = <<>> THEN <<cur>>
    ELSE IF Head(s) = "\n" THEN <<cur>> \o SplitLines(Tail(s), <<>>)
    ELSE SplitLines(Tail(s), Append(cur, Head(s)))

OwnVariable == <<"$", "a">> \o Out.ev.account \o StripVpc(Out.ev.vpc)

\* C25: a custom rule for (account, VPC) is accepted only if its source
\* variable is $a<account><vpc>, and is rejected with FormatError
\* otherwise: every rule line emitted for the VPC has that variable as its
\* source.
C25_OwnIpSetOnly ==
    IsCustom =>
        /\ (Len(Split(Out.ev.rule, <<>>)) >= 3 /\ Split(Out.ev.rule, <<>>)[3] # OwnVariable)
              => Rejected
        /\ Out.err = "none" =>
              \A i \in DOMAIN SplitLines(Sent[1].text, <<>>) :
                  Split(SplitLines(Sent[1].text, <<>>)[i], <<>>)[3] = OwnVariable

----------------------------------------------------------------------------
(* The retry after InvalidTokenException *)

\* worker w returns from add_new_rule in this step, without error, and the
\* insertion of its last rule met InvalidTokenException
ReturnsAfterRetry(w) ==
    /\ wk[w].pc = "cleanup" /\ wk'[w].pc = "reserved" /\ wk'[w].err = "none"
    /\ wk[w].retry

\* C26: when the update of an insertion has met InvalidTokenException and
\* add_new_rule returns normally, the rules of the record are live and so
\* are the rules the other worker has written, also when the retry found
\* no rule group with room.
C26_RetryKeepsBoth ==
    [][\A w \in Workers : ReturnsAfterRetry(w) =>
          /\ Keys(wk[w].msg) \subseteq
                LiveNames(nfw', RaceRegion, wk[w].msg.account, wk[w].msg.vpc)
          /\ \A o \in Workers \ {w} :
                wk[o].wrote # NoArn =>
                    Keys(wk[o].msg) \subseteq
                        LiveNames(nfw', RaceRegion, wk[o].msg.account, wk[o].msg.vpc)]_vars

MaxTouch == 2

\* a third invocation handles a record whose rule is already in rule group
\* g: __add_rule_entry sends update_rule_group with the rules the group
\* has, and the group gets a new UpdateToken
Touch ==
    /\ handled < MaxTouch
    /\ handled' = handled + 1
    /\ \E g \in DOMAIN nfw[RaceRegion].rg :
         /\ ~nfw[RaceRegion].rg[g].reserved
         /\ tok' = [tok EXCEPT ![g] = @ + 1]
    /\ UNCHANGED <<nfw, nextId, last, vpcCidr, wk, col>>

NextTouch == NextRace \/ Touch

SpecTouch == InitRace /\ [][NextTouch]_vars

\* C27: for one rule insertion InvalidTokenException triggers one retry:
\* when the update of the retry raises it too the error surfaces, so at
\* most two updates are attempted per inserted rule.
C27_OneRetry == \A w \in Workers : wk[w].attempts <= 2

----------------------------------------------------------------------------
(* _clean_up_rules step by step: the read that finds the rules to delete,  *)
(* and for each of them the second read, the describe and the write.       *)

\* the rule of the message is done: the next one, or the reserved group
NextRule(w) ==
    [wk[w] EXCEPT !.todo = Tail(@), !.retry = FALSE, !.attempts = 0, !.dels = <<>>,
                  !.pc = IF Tail(wk[w].todo) = <<>> THEN "reserved" ELSE "entries"]

\* delete_rules of the entries read
DeleteRules(w, entries) ==
    SelectSeq(ExistingAccountRules(entries, "DeleteVPC", wk[w].msg.account, wk[w].msg.vpc),
              LAMBDA meta : GetRuleName(meta.RuleString) \notin Keys(wk[w].msg))

\* _clean_up_rules: _get_rule_entries and delete_rules
CleanList(w) ==
    /\ wk[w].pc = "cleanup"
    /\ IF GetRuleEntries(H(w)).err # "none" THEN Fail(w, GetRuleEntries(H(w)).err)
       ELSE IF DeleteRules(w, GetRuleEntries(H(w)).entries) = <<>>
       THEN wk' = [wk EXCEPT ![w] = NextRule(w)]
       ELSE wk' = [wk EXCEPT ![w].dels = DeleteRules(w, GetRuleEntries(H(w)).entries),
                             ![w].pc = "reread"]
    /\ FirewallSame /\ RaceFrame

\* the rules of the group among the entries, without the rule to delete
WithoutRule(entries, rule_entry) ==
    SelectSeq(LinesOf(entries, rule_entry.GroupARN),
              LAMBDA l : GetRuleName(l) # GetRuleName(rule_entry.RuleString))

\* _clean_up_rules, one rule_entry: _get_rule_entries again and new_rules
CleanReread(w) ==
    /\ wk[w].pc = "reread"
    /\ IF GetRuleEntries(H(w)).err # "none" THEN Fail(w, GetRuleEntries(H(w)).err)
       ELSE wk' = [wk EXCEPT ![w].newr = WithoutRule(GetRuleEntries(H(w)).entries,
                                                     Head(wk[w].dels)),
                             ![w].arn = Head(wk[w].dels).GroupARN,
                             ![w].pc = "cdescribe"]
    /\ FirewallSame /\ RaceFrame

\* _clean_up_rules, one rule_entry: describe_rule_group
CleanDescribe(w) ==
    /\ wk[w].pc = "cdescribe"
    /\ IF DescribeErr(H(w), wk[w].arn) # "none" THEN Fail(w, DescribeErr(H(w), wk[w].arn))
       ELSE wk' = [wk EXCEPT ![w].vars = nfw[RaceRegion].rg[wk[w].arn.id].vars,
                             ![w].ipsets = nfw[RaceRegion].rg[wk[w].arn.id].ipsets,
                             ![w].token = tok[wk[w].arn.id],
                             ![w].pc = "cwrite"]
    /\ FirewallSame /\ RaceFrame

\* the rule_entry is done: the next one, or the next rule of the message
AfterWrite(w) ==
    IF Tail(wk[w].dels) = <<>> THEN NextRule(w)
    ELSE [wk[w] EXCEPT !.dels = Tail(@), !.pc = "reread"]

\* the write has answered with the handler state s
Written(w, s) ==
    /\ nfw' = s.fw
    /\ tok' = Bump(s.fw, {})
    /\ wk' = [wk EXCEPT ![w] = IF s.err # "none"
                                THEN [wk[w] EXCEPT !.pc = "failed", !.err = s.err]
                                ELSE AfterWrite(w)]
    /\ UNCHANGED nextId

\* _clean_up_rules, one rule_entry: _delete_rule_if_exists when no rule is
\* left, else update_rule_group with the UpdateToken of the describe
CleanWrite(w) ==
    /\ wk[w].pc = "cwrite"
    /\ IF wk[w].newr = <<>>
       THEN Written(w, DeleteRuleIfExists(H(w), ArnToName(wk[w].arn)))
       ELSE IF DescribeErr(H(w), wk[w].arn) # "none"
       THEN Fail(w, DescribeErr(H(w), wk[w].arn)) /\ FirewallSame
       ELSE IF tok[wk[w].arn.id] # wk[w].token
       THEN Fail(w, "InvalidTokenException") /\ FirewallSame
       ELSE Written(w, UpdateRuleGroup(H(w), wk[w].arn, wk[w].newr, wk[w].vars,
                                       wk[w].ipsets))
    /\ RaceFrame

\* the firewall after an earlier record of worker 1's scope, whose rule
\* worker 1's record no longer lists
InitClean ==
    /\ \E seed \in UpdateMsgs({RaceRegion}, {RaceScope(1)}, {2}, {1}) :
         /\ seed.rules # <<>>
         /\ nfw = Purge(Handler(NoFirewall, 1, seed, "asc", FALSE,
                                "ResourceNotFoundException", Sids[1]).fw)
         /\ nextId = Handler(NoFirewall, 1, seed, "asc", FALSE,
                             "ResourceNotFoundException", Sids[1]).next
    /\ handled = 0
    /\ last = [msg |-> NoMsg, err |-> "none"]
    /\ vpcCidr = [sc \in Scopes |-> NoCidr]
    /\ tok = [g \in 1..(MaxIds + 4) |-> 0]
    /\ col = NoCol
    /\ \E m1 \in UpdateMsgs({RaceRegion}, {RaceScope(1)}, {1}, AllRuns),
          m2 \in UpdateMsgs({RaceRegion}, {RaceScope(2)}, {1}, AllRuns) :
         wk = [w \in Workers |-> NoWorker(IF w = 1 THEN m1 ELSE m2)]

NextClean ==
    \E w \in Workers :
        \/ RaceInit(w)
        \/ RaceGetRuleEntries(w)
        \/ RaceGetRuleGroup(w)
        \/ RaceDescribe(w)
        \/ RaceUpdate(w)
        \/ RaceCreate(w)
        \/ CleanList(w)
        \/ CleanReread(w)
        \/ CleanDescribe(w)
        \/ CleanWrite(w)
        \/ RaceReserved(w)

SpecClean == InitClean /\ [][NextClean]_vars

\* worker w writes the removal of a stale rule in this step, without error
Removes(w) == wk[w].pc = "cwrite" /\ wk'[w].pc \notin {"cwrite", "failed"}

\* C28: when an invocation removes a stale rule from a rule group into
\* which another invocation inserts a rule, the write of the removal takes
\* the stale rule out and leaves every other rule that is live when it is
\* written, the inserted rule too, whatever the interleaving.
C28_RemovalKeepsInsert ==
    [][\A w \in Workers : Removes(w) =>
          /\ GetRuleName(Head(wk[w].dels).RuleString) \notin
                {l.line.name : l \in LiveLines(nfw', RaceRegion)}
          /\ \A l \in CustomerLines(nfw, RaceRegion) :
                l.line.name # GetRuleName(Head(wk[w].dels).RuleString) =>
                    l.line.name \in {x.line.name : x \in LiveLines(nfw', RaceRegion)}]_vars

----------------------------------------------------------------------------
(* _get_rule_group on an arbitrary registry *)

MaxGroups == 3

\* a rule group of the region holding n rules
FillerRules(n) == [i \in 1..n |-> RuleLine(<<"1">>, <<"b">>, Hashes[1], Sids[1])]

PickGroup(reserved, n, status) ==
    [reserved |-> reserved, rules |-> FillerRules(n), vars |-> FALSE,
     ipsets |-> <<>>, status |-> status]

PickGroups ==
    {PickGroup(r, n, st) : r \in BOOLEAN, n \in 0..RULE_GROUP_CAPACITY,
                           st \in {"ACTIVE", "DELETING"}}

\* the service holds MaxGroups rule groups of any kind in the region
InitPick ==
    /\ \E rg \in [1..MaxGroups -> PickGroups] :
         nfw = [NoFirewall EXCEPT !["eu1"].rg = rg]
    /\ nextId = MaxGroups + 1
    /\ handled = 0
    /\ last = [msg |-> NoMsg, err |-> "none"]
    /\ vpcCidr = [sc \in Scopes |-> NoCidr]
    /\ wk = <<>>
    /\ tok = <<>>
    /\ col = NoCol

\* a handler of the region is constructed and asked for a group
Picked(ord) ==
    GetRuleGroup(NewHandler(nfw, nextId, "eu1", ord, FALSE,
                            "ResourceNotFoundException", Sids[1]))

CallGetRuleGroup ==
    /\ handled = 0
    /\ handled' = 1
    /\ \E ord \in {"asc", "desc"} :
         last' = [msg |-> NoMsg, err |-> Picked(ord).err,
                  arn |-> Picked(ord).arn, ord |-> ord]
    /\ UNCHANGED <<nfw, nextId, vpcCidr, wk, tok, col>>

NextPick == CallGetRuleGroup

SpecPick == InitPick /\ [][NextPick]_vars

\* the groups _get_rule_group may return
Fitting ==
    {g \in GroupIds("eu1") :
        /\ ~nfw["eu1"].rg[g].reserved
        /\ nfw["eu1"].rg[g].status # "DELETING"
        /\ ConsumedCapacity(nfw["eu1"].rg[g]) < RULE_GROUP_CAPACITY}

Earlier(g, h) == IF last.ord = "asc" THEN g <= h ELSE g >= h

\* C29: _get_rule_group returns a group of minimum ConsumedCapacity among
\* the groups that are neither reserved nor DELETING, if that minimum is
\* below RULE_GROUP_CAPACITY, the first such group in iteration order, and
\* returns no group exactly when no such group is below the capacity.
C29_SmallestFit ==
    (handled = 1 /\ last.err = "none") =>
        IF Fitting = {} THEN last.arn = NoArn
        ELSE /\ last.arn = Arn("eu1", last.arn.id, FALSE)
             /\ last.arn.id \in Fitting
             /\ \A g \in Fitting :
                  /\ ConsumedCapacity(nfw["eu1"].rg[last.arn.id])
                        <= ConsumedCapacity(nfw["eu1"].rg[g])
                  /\ ConsumedCapacity(nfw["eu1"].rg[last.arn.id])
                        = ConsumedCapacity(nfw["eu1"].rg[g]) => Earlier(last.arn.id, g)

\* two groups tie for the minimum, the later of the two is returned in
\* descending order, past an emptier DELETING group and a reserved group
C29_Witness ==
    /\ handled = 1 /\ last.err = "none" /\ last.ord = "desc"
    /\ \E g, h \in Fitting :
          /\ g < h /\ last.arn.id = h
          /\ ConsumedCapacity(nfw["eu1"].rg[g]) = ConsumedCapacity(nfw["eu1"].rg[h])
          /\ ConsumedCapacity(nfw["eu1"].rg[h]) > 0
    /\ \E d \in GroupIds("eu1") :
          /\ nfw["eu1"].rg[d].status = "DELETING" /\ ~nfw["eu1"].rg[d].reserved
          /\ ConsumedCapacity(nfw["eu1"].rg[d]) = 0

\* every group is full, reserved or DELETING and no group is returned
C29_WitnessNone ==
    /\ handled = 1 /\ last.err = "none" /\ Fitting = {} /\ last.arn = NoArn
    /\ \E g \in GroupIds("eu1") :
          /\ ~nfw["eu1"].rg[g].reserved /\ nfw["eu1"].rg[g].status = "ACTIVE"
          /\ ConsumedCapacity(nfw["eu1"].rg[g]) = RULE_GROUP_CAPACITY

----------------------------------------------------------------------------
(* References per policy *)

\* C30: every firewall policy holds at most MAX_RULES_PRE_POLICY rule-group
\* references: a reference is appended to a policy only while it holds
\* fewer than that.
C30_PolicyBound ==
    \A r \in Regions : \A p \in DOMAIN nfw[r].pol :
        Len(nfw[r].pol[p].refs) <= MAX_RULES_PRE_POLICY

----------------------------------------------------------------------------
(* One invocation, step by step, on the firewall an earlier invocation has *)
(* left or on an empty region; its record is a new one or the record of    *)
(* the earlier invocation once more                                        *)

Solo == 1

InitSolo ==
    /\ \/ nfw = NoFirewall /\ nextId = 1
       \/ \E seed \in SeedMsgs :
            LET s == Handler(NoFirewall, 1, seed, "asc", FALSE,
                             "ResourceNotFoundException", Sids[1])
            IN nfw = Purge(s.fw) /\ nextId = s.next
    /\ handled = 0
    /\ last = [msg |-> NoMsg, err |-> "none"]
    /\ vpcCidr = [sc \in Scopes |-> NoCidr]
    /\ tok = [g \in 1..(MaxIds + 4) |-> 0]
    /\ col = NoCol
    /\ \E m \in UpdateMsgs({RaceRegion}, {RaceScope(1)}, AllRanks, AllRuns) \cup SeedMsgs :
         wk = [w \in {Solo} |-> NoWorker(m)]

NextSolo ==
    \/ RaceInit(Solo)
    \/ RaceGetRuleEntries(Solo)
    \/ RaceGetRuleGroup(Solo)
    \/ RaceDescribe(Solo)
    \/ RaceUpdate(Solo)
    \/ RaceCreate(Solo)
    \/ RaceCleanUp(Solo)
    \/ RaceReserved(Solo)

SpecSolo == InitSolo /\ [][NextSolo]_vars

\* the test of _associate_rule_group_to_policy for a free reference slot
HasFreeSlot(policy) == Len(policy.refs) <= MAX_RULES_PRE_POLICY

PolicyIds(fw) == DOMAIN fw[RaceRegion].pol
FreePolicies(fw) == {p \in PolicyIds(fw) : HasFreeSlot(fw[RaceRegion].pol[p])}

\* how often the policies of fw reference group g
References(fw, g) ==
    {<<p, i>> \in PolicyIds(fw) \X (1..(MaxIds + 4)) :
        /\ i \in DOMAIN fw[RaceRegion].pol[p].refs
        /\ fw[RaceRegion].pol[p].refs[i].id = g}

\* this step is the _create_new_rule_group of add_new_rule, returning
Overflows == wk[Solo].pc = "create" /\ wk'[Solo].pc = "cleanup"

\* the new group holds the rule and the IP-set of the VPC, and nothing else
SeededWith(g, rule_string, ip_set_name, ip_set_space) ==
    /\ g.rules = <<rule_string>>
    /\ ~g.reserved
    /\ g.vars
    /\ g.ipsets = MapPut(EmptyMap, ip_set_name, ip_set_space)

\* the reference to group g went to the first policy with a free slot, or
\* to a new policy when there was none
ReferencedOnce(g) ==
    /\ Cardinality(References(nfw', g)) = 1
    /\ IF FreePolicies(nfw) # {}
       THEN LET p == CHOOSE q \in FreePolicies(nfw) : \A r \in FreePolicies(nfw) : q <= r
            IN /\ PolicyIds(nfw') = PolicyIds(nfw)
               /\ nfw'[RaceRegion].pol[p].refs
                     = Append(nfw[RaceRegion].pol[p].refs, Arn(RaceRegion, g, FALSE))
       ELSE \E p \in PolicyIds(nfw') \ PolicyIds(nfw) :
               /\ PolicyIds(nfw') = PolicyIds(nfw) \cup {p}
               /\ nfw'[RaceRegion].pol[p].refs = <<Arn(RaceRegion, g, FALSE)>>

C31_WitnessNewPolicy ==
    /\ wk[Solo].pc = "cleanup"
    /\ nextId - 2 \in DOMAIN nfw[RaceRegion].rg
    /\ nextId - 1 \in PolicyIds(nfw)
    /\ nfw[RaceRegion].pol[nextId - 1].refs = <<Arn(RaceRegion, nextId - 2, FALSE)>>
    /\ \E p \in PolicyIds(nfw) : ~HasFreeSlot(nfw[RaceRegion].pol[p])

----------------------------------------------------------------------------
(* Deleting a rule group *)

\* records of the two VPCs of one account: Update, DeleteVpc and DeleteS3
HandleUpdatePack ==
    /\ handled < MaxMsgs
    /\ handled' = handled + 1
    /\ \E m \in UpdateMsgs({"eu1"}, PackScopes, {1, 2}, AllRuns) : Handle(m, {Sids[1]})

HandleDeleteVpcPack ==
    /\ handled < MaxMsgs
    /\ handled' = handled + 1
    /\ \E m \in DeleteVpcMsgs({"eu1"}, PackScopes) : Handle(m, {Sids[1]})

HandleDeleteS3Pack ==
    /\ handled < MaxMsgs
    /\ handled' = handled + 1
    /\ \E m \in DeleteS3Msgs({"eu1"}, {<<"1">>}) : Handle(m, {Sids[1]})

NextDelete == HandleUpdatePack \/ HandleDeleteVpcPack \/ HandleDeleteS3Pack

SpecDelete == Init /\ [][NextDelete]_vars

\* _clean_up_rules: the rule names a record makes it remove
ToRemove(m, name) ==
    /\ IF m.account # <<>> /\ m.vpc # <<>> THEN name.vpc = m.vpc
       ELSE name.account = m.account
    /\ name \notin Keys(m)

\* a customer rule group this step deletes held only rules the step removes
DeletedOnlyEmptied ==
    \A r \in Regions : \A g \in DOMAIN nfw[r].rg :
        (~nfw[r].rg[g].reserved /\ g \notin DOMAIN nfw'[r].rg) =>
            \A i \in DOMAIN nfw[r].rg[g].rules :
                ToRemove(last'.msg, GetRuleName(nfw[r].rg[g].rules[i]))

\* no customer rule group is left with an empty rules string
NoneLeftEmpty(fw) ==
    \A r \in Regions : \A g \in DOMAIN fw[r].rg :
        ~fw[r].rg[g].reserved => fw[r].rg[g].rules # <<>>

\* every reference of a policy is to a rule group of the region
NoDanglingReference(fw) ==
    \A r \in Regions : \A p \in DOMAIN fw[r].pol : \A i \in DOMAIN fw[r].pol[p].refs :
        fw[r].pol[p].refs[i].id \in DOMAIN fw[r].rg

\* _delete_rule_if_exists of group g by a new handler: delete_rule_group is
\* not refused, and g has left the references of every policy
DeleteUnreferenced(g, ord, lag) ==
    LET s == DeleteRuleIfExists(
                 NewHandler(nfw, nextId, "eu1", ord, lag, "ResourceNotFoundException", Sids[1]),
                 [id |-> g, reserved |-> nfw["eu1"].rg[g].reserved])
    IN /\ s.err = "none"
       /\ g \in DOMAIN s.fw["eu1"].rg => s.fw["eu1"].rg[g].status = "DELETING"
       /\ \A p \in DOMAIN s.fw["eu1"].pol :
             s.fw["eu1"].pol[p].refs
                = SelectSeq(nfw["eu1"].pol[p].refs, LAMBDA a : a.id # g)

\* C32: a customer rule group is deleted exactly when the removal of a rule
\* leaves it without rules, delete_rule_group comes after the group's
\* reference has left every policy that held it, and no policy references
\* a rule group that is gone.
C32_DeletedWhenEmptied ==
    [][Handling =>
          /\ DeletedOnlyEmptied
          /\ NoneLeftEmpty(nfw')
          /\ NoDanglingReference(nfw')
          /\ \A g \in GroupIds("eu1") : \A ord \in {"asc", "desc"}, lag \in BOOLEAN :
                DeleteUnreferenced(g, ord, lag)]_vars

\* a DeleteVpc has removed the only rule of group 1: the group is gone and
\* the policy that referenced it references the reserved group alone
C32_Witness ==
    /\ Ev = "DeleteVpc"
    /\ GroupIds("eu1") = {3}
    /\ nfw["eu1"].rg[3].reserved
    /\ 2 \in DOMAIN nfw["eu1"].pol
    /\ nfw["eu1"].pol[2].refs = <<Arn("eu1", 3, TRUE)>>

----------------------------------------------------------------------------
(* A rule that is live already *)

\* this step is the update_rule_group of __add_rule_entry for a rule whose
\* name was found among the entries read
RewritesFound(w) == wk[w].pc = "update" /\ wk[w].flag /\ wk'[w].pc = "cleanup"

\* C33: for a rule of the record whose rule_name is live already the
\* reconciler makes no writing call: no rule group and no policy is
\* created, updated or deleted, so no UpdateToken changes.
C33_NoWorkWhenLive ==
    [][\A w \in DOMAIN wk : RewritesFound(w) => tok' = tok]_vars

----------------------------------------------------------------------------
(* The cached ARNs after a deletion *)

\* C34: the rule-group ARNs an invocation scans are those of rule groups
\* that exist: after it has deleted a rule group it does not describe or
\* update that group any more, so that no call of the invocation is
\* answered with ResourceNotFoundException.
C34_ScansExistingGroups ==
    [][Handling => last'.err # "ResourceNotFoundException"]_vars

----------------------------------------------------------------------------
(* _create_new_rule_group step by step: create_rule_group, then the        *)
(* describe_firewall_policy and the update_firewall_policy of              *)
(* _associate_rule_group_to_policy.  tok[p] is the UpdateToken of policy p *)
(* as well (rule groups and policies draw their names from one counter).   *)

\* add_new_rule: create_rule_group of _create_new_rule_group
AssocCreate(w) ==
    /\ wk[w].pc = "create"
    /\ LET s == CreateRuleGroup(H(w), FALSE, <<Head(wk[w].todo)>>, TRUE,
                                MapPut(EmptyMap,
                                       IpSetName(wk[w].msg.account, wk[w].msg.vpc),
                                       wk[w].msg.cidr))
       IN /\ s.next <= MaxIds + 1
          /\ nfw' = s.fw
          /\ nextId' = s.next
          /\ wk' = [wk EXCEPT ![w].arn = Arn(RaceRegion, nextId, FALSE), ![w].pc = "associate"]
    /\ UNCHANGED tok /\ RaceFrame

\* _associate_rule_group_to_policy: describe_firewall_policy of the cached
\* policies up to the first one with a free slot
AssocDescribe(w) ==
    /\ wk[w].pc = "associate"
    /\ LET free == SelectSeq(PolicyOrder(H(w)),
                             LAMBDA p : HasFreeSlot(nfw[RaceRegion].pol[p.id]))
       IN IF free = <<>> THEN wk' = [wk EXCEPT ![w].pc = "policy"]
          ELSE wk' = [wk EXCEPT ![w].policy = Head(free).id,
                                ![w].refs = nfw[RaceRegion].pol[Head(free).id].refs,
                                ![w].ptoken = tok[Head(free).id],
                                ![w].pc = "reference"]
    /\ FirewallSame /\ RaceFrame

\* _associate_rule_group_to_policy: update_firewall_policy with the
\* UpdateToken of the describe; InvalidTokenException is not caught
AssocUpdate(w) ==
    /\ wk[w].pc = "reference"
    /\ IF tok[wk[w].policy] # wk[w].ptoken
       THEN Fail(w, "InvalidTokenException") /\ FirewallSame
       ELSE /\ nfw' = [nfw EXCEPT ![RaceRegion].pol[wk[w].policy].refs =
                                      Append(wk[w].refs, wk[w].arn)]
            /\ tok' = [tok EXCEPT ![wk[w].policy] = @ + 1]
            /\ wk' = [wk EXCEPT ![w].cache = @ \cup {wk[w].arn}, ![w].pc = "cleanup"]
            /\ UNCHANGED nextId
    /\ RaceFrame

\* _associate_rule_group_to_policy: no slot found, _create_new_policy
AssocNewPolicy(w) ==
    /\ wk[w].pc = "policy"
    /\ LET s == Remember(CreateNewPolicy(H(w), wk[w].arn), wk[w].arn)
       IN /\ s.next <= MaxIds + 1
          /\ nfw' = s.fw
          /\ nextId' = s.next
          /\ wk' = [wk EXCEPT ![w].cache = s.cache, ![w].pcache = s.pcache,
                              ![w].pc = "cleanup"]
    /\ UNCHANGED tok /\ RaceFrame

\* the firewall after an Update of the seed tenant, or after that Update
\* and the DeleteVpc of the seed tenant
SeedDelete ==
    [event |-> "DeleteVpc", account |-> SeedAccount, vpc |-> SeedVpc,
     region |-> RaceRegion, cidr |-> NoCidr, rules |-> <<>>]

AfterSeed(seed) ==
    Handler(NoFirewall, 1, seed, "asc", FALSE, "ResourceNotFoundException", Sids[1])

AfterSeedDelete(s) ==
    Handler(Purge(s.fw), s.next, SeedDelete, "asc", FALSE,
            "ResourceNotFoundException", Sids[1])

InitAssoc ==
    /\ \E seed \in SeedMsgs :
         \/ nfw = Purge(AfterSeed(seed).fw) /\ nextId = AfterSeed(seed).next
         \/ /\ nfw = Purge(AfterSeedDelete(AfterSeed(seed)).fw)
            /\ nextId = AfterSeedDelete(AfterSeed(seed)).next
    /\ handled = 0
    /\ last = [msg |-> NoMsg, err |-> "none"]
    /\ vpcCidr = [sc \in Scopes |-> NoCidr]
    /\ tok = [g \in 1..(MaxIds + 4) |-> 0]
    /\ col = NoCol
    /\ \E m1 \in UpdateMsgs({RaceRegion}, {RaceScope(1)}, {1}, AllRuns),
          m2 \in UpdateMsgs({RaceRegion}, {RaceScope(2)}, {1}, AllRuns) :
         wk = [w \in Workers |-> NoWorker(IF w = 1 THEN m1 ELSE m2)]

NextAssoc ==
    \E w \in Workers :
        \/ RaceInit(w)
        \/ RaceGetRuleEntries(w)
        \/ RaceGetRuleGroup(w)
        \/ RaceDescribe(w)
        \/ RaceUpdate(w)
        \/ AssocCreate(w)
        \/ AssocDescribe(w)
        \/ AssocUpdate(w)
        \/ AssocNewPolicy(w)
        \/ RaceCleanUp(w)
        \/ RaceReserved(w)

SpecAssoc == InitAssoc /\ [][NextAssoc]_vars

\* C35: once every invocation has finished, with or without an error,
\* every rule group that holds a customer rule is referenced by a policy;
\* two invocations that each create a rule group and associate it with the
\* same policy both leave their group referenced.
C35_CreatedGroupsReferenced ==
    (\A w \in Workers : wk[w].pc \in {"done", "failed"}) =>
        \A g \in GroupIds(RaceRegion) :
            (~nfw[RaceRegion].rg[g].reserved /\ nfw[RaceRegion].rg[g].rules # <<>>) =>
                Referencing(nfw, RaceRegion, g) # {}

----------------------------------------------------------------------------
(* IP-set pruning *)

\* C36: the IP-set pruning of a DeleteVpc or DeleteS3 record goes through
\* every cached rule group without error, a group without RuleVariables
\* (the reserved group) included.
C36_PruningCompletes ==
    [][(Handling /\ last'.msg.event \in {"DeleteVpc", "DeleteS3"}) =>
          last'.err # "KeyError"]_vars

----------------------------------------------------------------------------
(* Reading the rules string of a rule group: the RulesString of            *)
(* describe_rule_group is text, a sequence of tokens with "\n" between its *)
(* lines                                                                   *)

MaxLines == 3

\* rule strings as the compiler emits them
ScanLines ==
    {Compiled(ev).rules[1].text :
        ev \in {x \in RuleIntents : /\ x.account = <<"1">>
                                    /\ x.domain = <<"x", ".", "c">>
                                    /\ ~x.default_order
                                    /\ x.sid = "10"}}

\* "\n".join(lines)
RECURSIVE JoinLines(_)
JoinLines(lines) ==
    IF lines = <<>> THEN <<>>
    ELSE IF Len(lines) = 1 THEN Head(lines)
    ELSE Head(lines) \o <<"\n">> \o JoinLines(Tail(lines))

\* rules strings of up to MaxLines lines, empty lines among them
RulesStrings ==
    UNION {{JoinLines(ls) : ls \in [1..n -> ScanLines \cup {<<>>}]} : n \in 0..MaxLines}

\* the rule group the service holds
InitScan ==
    /\ nfw = NoFirewall
    /\ nextId = 1
    /\ handled = 0
    /\ last = [msg |-> NoMsg, err |-> "none"]
    /\ vpcCidr = [sc \in Scopes |-> NoCidr]
    /\ \E text \in RulesStrings : wk = [RulesString |-> text]
    /\ tok = <<>>
    /\ col = NoCol

\* str.split("\n"): the pieces between the line breaks
LineBreaks(text) == SelectSeq([i \in DOMAIN text |-> i], LAMBDA i : text[i] = "\n")
Cuts(text) == <<0>> \o LineBreaks(text) \o <<Len(text) + 1>>
SplitRules(text) ==
    [k \in 1..(Len(Cuts(text)) - 1) |->
        SubSeq(text, Cuts(text)[k] + 1, Cuts(text)[k + 1] - 1)]

\* __add_rule_entry, _clean_up_rules: the rule name of every entry read;
\* matches[0] of a search without match is a TypeError
RECURSIVE EntryNames(_)
EntryNames(rules_) ==
    IF rules_ = <<>> THEN [err |-> "none", names |-> <<>>]
    ELSE IF Matches(Head(rules_)) = {} THEN [err |-> "TypeError", names |-> <<>>]
    ELSE [err |-> EntryNames(Tail(rules_)).err,
          names |-> IF EntryNames(Tail(rules_)).err # "none" THEN <<>>
                    ELSE <<GetRuleNameFromRuleString(Head(rules_))>>
                         \o EntryNames(Tail(rules_)).names]

\* _get_rule_entries: RulesString.split("\n"), one entry per piece, and the
\* loop of the caller over the entries
ScanRuleGroup ==
    /\ handled = 0
    /\ handled' = 1
    /\ last' = [msg |-> NoMsg,
                err |-> EntryNames(SplitRules(wk.RulesString)).err,
                names |-> EntryNames(SplitRules(wk.RulesString)).names]
    /\ UNCHANGED <<nfw, nextId, vpcCidr, wk, tok, col>>

NextScan == ScanRuleGroup

SpecScan == InitScan /\ [][NextScan]_vars

NonEmpty(line) == line # <<>>

\* C37: a rules string that is empty or has empty lines is read as the list
\* of its non-empty rules: the scan of its entries raises no error and
\* finds the rule names of those rules.
C37_EmptyLinesTolerated ==
    handled = 1 =>
        /\ last.err = "none"
        /\ last.names = [i \in DOMAIN SelectSeq(SplitRules(wk.RulesString), NonEmpty) |->
                            GetRuleNameFromRuleString(
                                SelectSeq(SplitRules(wk.RulesString), NonEmpty)[i])]

----------------------------------------------------------------------------
(* An Update whose writing call the service keeps refusing                 *)

\* the same invocation, where the service refuses refusals attempts in a
\* row of the writing call number limitAt
HandlerRefused(fw, next, m, limitAt, refusals) ==
    CreateReservedRuleGroup(
        JsonToRule([NewHandler(fw, next, m.region, "asc", FALSE,
                               "ResourceNotFoundException", Sids[1])
                       EXCEPT !.limitAt = limitAt, !.refusals = refusals], m))

\* how many attempts in a row the service refuses: none, one fewer than the
\* client makes, as many as the client makes
Refusals == {0, max_attempts - 1, max_attempts}

HandleUpdateRefused ==
    /\ handled < MaxMsgs
    /\ handled' = handled + 1
    /\ \E m \in UpdateMsgs({"eu1"}, PackScopes, {1, 2}, AllRuns),
          limitAt \in 0..MaxStop, refusals \in Refusals :
         Commit(m, HandlerRefused(nfw, nextId, m, limitAt, refusals))
    /\ UNCHANGED <<vpcCidr, wk, tok, col>>

NextLimit == HandleUpdateRefused

SpecLimit == Init /\ [][NextLimit]_vars

\* C38: when a call made while applying an Update is refused with
\* LimitExceededException it is retried, so that whenever the handling of
\* the Update returns without error every rule of the record is live.
C38_LimitRetried ==
    [][(Handling /\ last'.msg.event = "Update" /\ last'.err = "none") =>
         Keys(last'.msg) \subseteq
           LiveNames(nfw', last'.msg.region, last'.msg.account, last'.msg.vpc)]_vars

----------------------------------------------------------------------------
(* The regional sweep and what the other regions answer                    *)

\* a DeleteAccount record handled with the answer xerr of the service to an
\* ARN of another region; the answer is kept for the properties
HandleSweep ==
    /\ handled < MaxMsgs
    /\ handled' = handled + 1
    /\ \E m \in DeleteAccountMsgs(Regions, {<<"1">>}) : \E xerr \in CrossRegionErrors(m) :
         /\ Commit(m, Handler(nfw, nextId, m, "asc", FALSE, xerr, Sids[1]))
         /\ wk' = [xerr |-> xerr]
    /\ UNCHANGED <<vpcCidr, tok, col>>

NextSweep == HandleUpdateRegions \/ HandleSweep

SpecSweep == Init /\ [][NextSweep]_vars

\* the record that asks for the same deletion in the bound region only
AsDeleteS3(m) == [m EXCEPT !.event = "DeleteS3"]

\* a region swept before the bound one is asked for the cached ARNs
EarlierRegionRaises(m) ==
    m.region # Head(supported_regions) /\ DOMAIN nfw[m.region].rg # {}

Swept == Handling /\ last'.msg.event = "DeleteAccount"

\* json_to_rule of the record m on the firewall as it is, with the answer xerr
Sweep(m, xerr) ==
    JsonToRule(NewHandler(nfw, nextId, m.region, "asc", FALSE, xerr, Sids[1]), m)

\* C39: in the sweep of a DeleteAccount a ResourceNotFoundException of a
\* region counts as success of that region and the regions after it are
\* swept as if it had not been raised (json_to_rule does not end with that
\* error and the bound region keeps the live rules a deletion in that region
\* alone leaves); any other client error ends the handling at once and is
\* the error of the invocation.
C39_SweepSkipsMissing ==
    [][Swept =>
         /\ wk'.xerr = "ResourceNotFoundException" =>
              /\ Sweep(last'.msg, wk'.xerr).err # "ResourceNotFoundException"
              /\ LiveNames(nfw', last'.msg.region, last'.msg.account, <<>>) =
                   LiveNames(Sweep(AsDeleteS3(last'.msg), wk'.xerr).fw,
                             last'.msg.region, last'.msg.account, <<>>)
         /\ (wk'.xerr # "ResourceNotFoundException" /\ EarlierRegionRaises(last'.msg)) =>
              /\ Sweep(last'.msg, wk'.xerr).err = wk'.xerr
              /\ last'.err = wk'.xerr
              /\ nfw' = nfw]_vars

\* a sweep bound to the last region went past the first region's
\* ResourceNotFoundException and deleted the only rule group of the account
\* there: groups 1 and 3 and policy 2 were made in eu2, group 1 is gone
C39_Witness ==
    /\ Ev = "DeleteAccount"
    /\ wk = [xerr |-> "ResourceNotFoundException"]
    /\ last.msg.region = "eu2"
    /\ DOMAIN nfw["eu1"].rg = {}
    /\ DOMAIN nfw["eu2"].rg = {3}
    /\ nfw["eu2"].rg[3].reserved

----------------------------------------------------------------------------
(* Loading the registry page by page                                       *)

MaxPages == 3           \* responses the service holds for one listing
MaxListed == 2          \* resources the service can list

\* _get_all_groups calls list_rule_groups, _get_all_policies calls
\* list_firewall_policies
ListCalls == {"list_rule_groups", "list_firewall_policies"}

\* the "Arn" of a listed resource
ListedArn(call, i) ==
    IF call = "list_rule_groups" THEN Arn("eu1", i, FALSE) ELSE PolArn("eu1", i)

\* the responses of the service to one listing: response i carries the ARNs
\* of its page and either no NextToken (0) or the token of response i + 1;
\* the last response carries none
Responses(call) ==
    UNION {{pages \in [1..n -> [Arns : SUBSET {ListedArn(call, i) : i \in 1..MaxListed},
                                NextToken : 0..(n + 1)]] :
              /\ \A i \in 1..n : pages[i].NextToken \in {0, i + 1}
              /\ pages[n].NextToken = 0} : n \in 1..MaxPages}

\* before the first call: names: set = set()
InitList ==
    /\ nfw = NoFirewall
    /\ nextId = 1
    /\ handled = 0
    /\ last = [msg |-> NoMsg, err |-> "none"]
    /\ vpcCidr = [sc \in Scopes |-> NoCidr]
    /\ tok = <<>>
    /\ col = NoCol
    /\ \E call \in ListCalls : \E pages \in Responses(call) :
         wk = [call |-> call, service |-> pages, pc |-> "list", groups |-> 0,
               names |-> {}, calls |-> 0]

\* a loop condition under which no further page is ever asked for
HasNoNextToken(response) == FALSE

\* "NextToken" in groups
HasNextToken(response) == response.NextToken # 0

\* the first call, without a token, and the ARNs of its page
ListFirst ==
    /\ wk.pc = "list"
    /\ wk' = [wk EXCEPT !.groups = 1, !.names = @ \cup wk.service[1].Arns,
                        !.calls = @ + 1, !.pc = "while"]
    /\ UNCHANGED <<nfw, nextId, handled, last, vpcCidr, tok, col>>

\* the body of the while loop: the call with the NextToken of the response
\* at hand, and the ARNs of the page it answers with
ListNext ==
    /\ wk.pc = "while"
    /\ HasNextToken(wk.service[wk.groups])
    /\ wk' = [wk EXCEPT !.groups = wk.service[wk.groups].NextToken,
                        !.names = @ \cup wk.service[wk.service[wk.groups].NextToken].Arns,
                        !.calls = @ + 1]
    /\ UNCHANGED <<nfw, nextId, handled, last, vpcCidr, tok, col>>

\* return names
ListReturn ==
    /\ wk.pc = "while"
    /\ ~HasNextToken(wk.service[wk.groups])
    /\ wk' = [wk EXCEPT !.pc = "return"]
    /\ UNCHANGED <<nfw, nextId, handled, last, vpcCidr, tok, col>>

NextList == ListFirst \/ ListNext \/ ListReturn

\* the function runs on until it returns
SpecList == InitList /\ [][NextList]_vars /\ WF_vars(NextList)

\* the first response without a NextToken
LastPage(pages) ==
    CHOOSE i \in DOMAIN pages :
        pages[i].NextToken = 0 /\ \A j \in 1..(i - 1) : pages[j].NextToken # 0

\* C40: _get_all_groups and _get_all_policies return: they ask for the next
\* page as long as the response at hand carries a NextToken, stop at the
\* first response without one, and return exactly the ARNs of the pages up
\* to that response.
C40_ListsEveryPage ==
    /\ [](wk.pc = "return" =>
            /\ wk.calls = LastPage(wk.service)
            /\ wk.names = UNION {wk.service[i].Arns : i \in 1..LastPage(wk.service)})
    /\ <>(wk.pc = "return")

\* a listing has returned after three calls with an ARN that only its last
\* page carried, while the service held nothing more
C40_Witness ==
    /\ wk.pc = "return"
    /\ wk.calls = 3
    /\ \E a \in wk.service[3].Arns : a \notin wk.service[1].Arns \cup wk.service[2].Arns
    /\ wk.names = wk.service[1].Arns \cup wk.service[2].Arns \cup wk.service[3].Arns

====
